---- MODULE Spec2Model ----
(***************************************************************************)
(* The agent orchestration loop (src/agent/core.ts, runAgent) together     *)
(* with the conversation store it writes to, the response parser and       *)
(* validator it routes on, and the tool registry it dispatches to.         *)
(*                                                                         *)
(* One runAgent invocation is in flight at a time; every `await` of the    *)
(* loop is one action.  Texts are TLA+ strings, so content lengths (the    *)
(* token estimate) are the real lengths of the messages the code builds.   *)
(***************************************************************************)
EXTENDS Integers, Sequences, FiniteSets, TLC

VARIABLES
    conversations,     \* InMemoryConversationRepository.conversations : id -> conversation
    tools,             \* InMemoryToolRegistry.tools, in registration order
    thrown,            \* what the last call on the registry threw (NONE: it returned)
    invoked,           \* tool.execute invocations made by the last registry call
    stage,             \* how far a response has come through the parser
    rawResponse,       \* parser: the text to parse, character by character
    stripped,          \* parser: the text without its fences
    parsed,            \* parser: what JSON.parse made of it
    verdict,           \* parser: what the validator made of it
    bound,             \* caller -> conversationId its ConversationService was built with
    inflight,          \* caller -> the service call it has made, and how far it has come
    observed,          \* id -> what the callers have been told about the conversation
    pc,                \* position of the runAgent invocation in flight ("idle": none)
    conversationId,    \* id the conversation service of the run is bound to
    userInput,         \* runAgent argument
    systemPrompt,      \* runAgent argument
    maxIterations,     \* mergedConfig.maxIterations
    maxTokens,         \* mergedConfig.maxTokens
    i,                 \* loop variable of the for loop
    metrics,           \* AgentMetrics of the run
    estimatedTokens,   \* local of the loop
    currentMessages,   \* local of the loop: what is handed to llm.chat
    llmResult,         \* local of the loop: content returned by llm.chat
    validated,         \* local of the loop: validated.data
    toolResult,        \* local of executeToolAndUpdateConversation
    pendingMessage,    \* message about to be appended by conversation.add
    result,            \* AgentResult returned by the last finished invocation
    runs,              \* number of runAgent invocations so far
    totalChats,        \* number of llm.chat calls so far, all runs
    hist               \* observations of the run in flight (see NoHist)

vars == <<conversations, tools, thrown, invoked, stage, rawResponse,
          stripped, parsed, verdict, bound, inflight, observed, pc,
          conversationId, userInput, systemPrompt,
          maxIterations, maxTokens, i, metrics, estimatedTokens,
          currentMessages, llmResult, validated, toolResult, pendingMessage,
          result, runs, totalChats, hist>>

runLocals == <<estimatedTokens, currentMessages, llmResult, validated,
               toolResult, pendingMessage>>

runArgs == <<conversationId, userInput, systemPrompt, maxIterations, maxTokens>>

registry == <<tools, thrown, invoked>>

parser == <<stage, rawResponse, stripped, parsed, verdict>>

callers == <<bound, inflight, observed>>

-----------------------------------------------------------------------------
(* Bounds of the exploration *)

MaxRuns == 2             \* runAgent invocations explored
MaxTotalChats == 2       \* llm.chat calls explored, over all runs; also the
                         \* largest config.maxIterations explored

(* Program constants *)

ThresholdNum == 4        \* AGENT_CONTEXT_LIMIT_THRESHOLD = 0.8 = 4/5
ThresholdDen == 5
AGENT_MAX_TOKENS == 32768
CHARS_PER_TOKEN == 4

NONE == "<undefined>"    \* an absent optional field

Max(a, b) == IF a >= b THEN a ELSE b

-----------------------------------------------------------------------------
(* Inputs *)

ConversationIds == {"c1"}

UserInputs == {"", "   \n  \t  ", "Say hello"}

SystemPrompts == {"", "   \n  \t  ",
                  "You are a helpful assistant with access to tools",
                  "You are a coding assistant"}

MaxIterationsChoices == (-1) .. MaxTotalChats

MaxTokensChoices == {10, 40, AGENT_MAX_TOKENS}

\* String.prototype.trim on the inputs above
trim(s) == IF s \in {"", "   \n  \t  "} THEN "" ELSE s

-----------------------------------------------------------------------------
(* JSON values: an object is its set of members <<key, type, text>> *)

JsonObject(members) == [type |-> "object", members |-> members]
NotJson == [type |-> "syntax-error", members |-> {}]

Keys(json) == {m[1] : m \in json.members}
Member(json, key) == CHOOSE m \in json.members : m[1] = key

\* What the model may answer: the content, and what JSON.parse makes of the
\* content once the code fences are stripped.
LlmResponses == {
    [content |-> "{\"done\": true, \"response\": \"Hello, I can help you!\"}",
     json |-> JsonObject({<<"done", "boolean", "true">>,
                          <<"response", "string", "Hello, I can help you!">>})],
    [content |-> "{\"tool\": \"echo\", \"args\": {\"message\": \"test\"}}",
     json |-> JsonObject({<<"tool", "string", "echo">>,
                          <<"args", "object", "{\"message\":\"test\"}">>})],
    [content |-> "{\"tool\": \"echo\", \"args\": {}}",
     json |-> JsonObject({<<"tool", "string", "echo">>,
                          <<"args", "object", "{}">>})],
    [content |-> "{\"tool\": \"fail_tool\", \"args\": {}}",
     json |-> JsonObject({<<"tool", "string", "fail_tool">>,
                          <<"args", "object", "{}">>})],
    [content |-> "{\"tool\": \"error_tool\", \"args\": {}}",
     json |-> JsonObject({<<"tool", "string", "error_tool">>,
                          <<"args", "object", "{}">>})],
    [content |-> "{\"tool\": \"nonexistent_tool\", \"args\": {}}",
     json |-> JsonObject({<<"tool", "string", "nonexistent_tool">>,
                          <<"args", "object", "{}">>})],
    [content |-> "invalid json", json |-> NotJson],
    [content |-> "{\"tool\": \"invalid_tool_name\"}",
     json |-> JsonObject({<<"tool", "string", "invalid_tool_name">>})],
    [content |-> "{\"done\": true, \"response\": \"x\", \"tool\": \"echo\", \"args\": {}}",
     json |-> JsonObject({<<"done", "boolean", "true">>,
                          <<"response", "string", "x">>,
                          <<"tool", "string", "echo">>,
                          <<"args", "object", "{}">>})]
}

LlmContents == {r.content : r \in LlmResponses}

\* further texts a model may send, and what JSON.parse makes of them
JsonTexts ==
    LlmResponses \cup {
    [content |-> "{\"tool\": \"test\", \"args\": {}}",
     json |-> JsonObject({<<"tool", "string", "test">>,
                          <<"args", "object", "{}">>})],
    [content |-> "{ \"tool\": \"file_read\", \"args\": { \"path\": \"test.txt\" } }",
     json |-> JsonObject({<<"tool", "string", "file_read">>,
                          <<"args", "object", "{\"path\":\"test.txt\"}">>})],
    [content |-> "{\"tool\": \"complex_tool\", \"args\": {\"nested\": {\"value\": 123}, \"array\": [1, 2, 3]}}",
     json |-> JsonObject({<<"tool", "string", "complex_tool">>,
                          <<"args", "object", "{\"nested\":{\"value\":123},\"array\":[1,2,3]}">>})],
    [content |-> "{\"tool\": \" Echo \", \"args\": {\"done\": true, \"tool\": 1}}",
     json |-> JsonObject({<<"tool", "string", " Echo ">>,
                          <<"args", "object", "{\"done\":true,\"tool\":1}">>})],
    [content |-> "{\"invalid\": \"structure\"}",
     json |-> JsonObject({<<"invalid", "string", "structure">>})],
    [content |-> "{ invalid json }", json |-> NotJson]
    }

\* A text is a sequence of characters; a stretch of it that holds no
\* backtick and neither begins nor ends with white space is written as one
\* element, and the word json is one element.
Tick == "tick"                  \* one backtick
Fence == <<Tick, Tick, Tick>>
FenceJson == <<Tick, Tick, Tick, "json">>

\* a replace that stops after the first match
removeFirst(text, pattern) ==
    IF \E k \in 1..(Len(text) - Len(pattern) + 1) :
          SubSeq(text, k, k + Len(pattern) - 1) = pattern
    THEN LET k == CHOOSE j \in 1..(Len(text) - Len(pattern) + 1) :
                     /\ SubSeq(text, j, j + Len(pattern) - 1) = pattern
                     /\ \A h \in 1..(j - 1) :
                           SubSeq(text, h, h + Len(pattern) - 1) # pattern
             rest == SubSeq(text, k + Len(pattern), Len(text))
         IN  SubSeq(text, 1, k - 1)
             \o (IF rest # <<>> /\ Head(rest) = "\n" THEN Tail(rest) ELSE rest)
    ELSE text

\* text.replace(/<pattern>\n?/g, ''): every match, left to right, each with
\* the newline that follows it
RECURSIVE removeAll(_, _)
removeAll(text, pattern) ==
    IF Len(text) < Len(pattern) THEN text
    ELSE IF SubSeq(text, 1, Len(pattern)) = pattern
    THEN LET rest == SubSeq(text, Len(pattern) + 1, Len(text))
         IN  removeAll(IF rest # <<>> /\ Head(rest) = "\n" THEN Tail(rest)
                       ELSE rest, pattern)
    ELSE <<Head(text)>> \o removeAll(Tail(text), pattern)

\* String.prototype.trim on a text
RECURSIVE trimStart(_)
trimStart(text) ==
    IF text # <<>> /\ Head(text) \in {" ", "\n"} THEN trimStart(Tail(text))
    ELSE text

RECURSIVE trimEnd(_)
trimEnd(text) ==
    IF text # <<>> /\ text[Len(text)] \in {" ", "\n"}
    THEN trimEnd(SubSeq(text, 1, Len(text) - 1))
    ELSE text

stripMarkdown(text) ==
    IF text = <<>> THEN <<>>
    ELSE trimEnd(trimStart(removeAll(removeAll(text, FenceJson), Fence)))

\* the characters of a text as one string
RECURSIVE joined(_)
joined(text) ==
    IF text = <<>> THEN "" ELSE Head(text) \o joined(Tail(text))

\* getExcerpt(text, position) for an error message that names no position
getExcerpt(rawText) ==
    "Received: " \o (IF Len(rawText) > 100 THEN SubSeq(rawText, 1, 100) \o "..."
                     ELSE rawText)

\* getCommonFixes(errorMsg) for an "Unexpected token" message
getCommonFixes ==
    "- Check for missing quotes around strings\n- Check for trailing commas\n"
    \o "- Ensure all strings use double quotes \""

VALID_FORMAT_EXAMPLES ==
    "Tool call: { \"tool\": \"file_read\", \"args\": { \"path\": \"test.txt\" } }\n"
    \o "Completion: { \"done\": true, \"response\": \"Task complete\" }"

\* a parse failure message that says nothing of the text received
buildJsonParseErrorMessageBare(rawText) ==
    "Failed to parse JSON response: Unexpected token"

\* buildJsonParseErrorMessage(rawText, parseError): the syntax error, what was
\* received, the likely fixes and the two valid formats
buildJsonParseErrorMessage(rawText) ==
    "Failed to parse JSON response: Unexpected token\n\n" \o getExcerpt(rawText)
    \o "\n\nCommon fixes:\n" \o getCommonFixes
    \o "\n\nExpected format:\n" \o VALID_FORMAT_EXAMPLES

\* JSON.parse(stripped), as a value: only a text that is one JSON document parses
jsonParse(text) ==
    IF Len(text) = 1 /\ \E t \in JsonTexts : t.content = text[1] /\ t.json # NotJson
    THEN [success |-> TRUE,
          data |-> (CHOOSE t \in JsonTexts : t.content = text[1]).json,
          error |-> NONE]
    ELSE [success |-> FALSE, data |-> NotJson,
          error |-> buildJsonParseErrorMessage(joined(text))]

\* safeParseJson: strip the fences, JSON.parse, a failure value on a syntax error
safeParseJson(content) == jsonParse(stripMarkdown(<<content>>))

\* completionResponseSchema: strict {done: literal true, response: string}
completionResponseSchema(json) ==
    /\ json.type = "object"
    /\ Keys(json) = {"done", "response"}
    /\ Member(json, "done") = <<"done", "boolean", "true">>
    /\ Member(json, "response")[2] = "string"

\* the tool call schema without .strict(): unknown keys pass
toolCallResponseSchemaLoose(json) ==
    /\ json.type = "object"
    /\ {"tool", "args"} \subseteq Keys(json)
    /\ Member(json, "tool")[2] = "string"
    /\ Member(json, "args")[2] = "object"

\* toolCallResponseSchema: strict {tool: string, args: record}
toolCallResponseSchema(json) ==
    /\ json.type = "object"
    /\ Keys(json) = {"tool", "args"}
    /\ Member(json, "tool")[2] = "string"
    /\ Member(json, "args")[2] = "object"

NoData == [kind |-> "none", tool |-> NONE, args |-> NONE, response |-> NONE]

\* a tool call that loses its arguments on the way
toolCallDataNoArgs(json) ==
    [kind |-> "tool", tool |-> Member(json, "tool")[3], args |-> "{}",
     response |-> NONE]

\* toolCallResult.data: the tool and the args as they were parsed
toolCallData(json) ==
    [kind |-> "tool", tool |-> Member(json, "tool")[3],
     args |-> Member(json, "args")[3], response |-> NONE]

NoValidation == [success |-> FALSE, data |-> NoData, errors |-> NONE]

\* validateResponse: the completion schema is tried first, then the tool call
\* schema; when neither matches the tool call schema's diagnostic is reported.
validateResponse(json) ==
    IF completionResponseSchema(json)
    THEN [success |-> TRUE,
          data |-> [kind |-> "done", tool |-> NONE, args |-> NONE,
                    response |-> Member(json, "response")[3]],
          errors |-> NONE]
    ELSE IF toolCallResponseSchema(json)
    THEN [success |-> TRUE,
          data |-> toolCallData(json),
          errors |-> NONE]
    ELSE [success |-> FALSE, data |-> NoData,
          errors |-> "Response does not match the tool call format"]

-----------------------------------------------------------------------------
(* Conversation store: InMemoryConversationService over the repository *)

Message(role, content) == [role |-> role, content |-> content]

NoConversation == [exists |-> FALSE, messages |-> <<>>]

NoMessage == Message(NONE, NONE)

RECURSIVE totalChars(_)
totalChars(messages) ==
    IF messages = <<>> THEN 0
    ELSE Len(Head(messages).content) + totalChars(Tail(messages))

\* a division that rounds down
floorDiv(n, d) == n \div d

\* Math.ceil(n / d) for n >= 0, d > 0
ceilDiv(n, d) == (n + d - 1) \div d

\* a read that hands out the two most recent messages only
getRecentMessages(id) ==
    LET all == IF conversations[id].exists THEN conversations[id].messages ELSE <<>>
    IN  IF Len(all) <= 2 THEN all ELSE SubSeq(all, Len(all) - 1, Len(all))

\* a repository get that hands out whatever conversation comes first in the map
getFirst(id) == conversations[CHOOSE first \in DOMAIN conversations : TRUE]

\* repository.get(id): a copy of the conversation stored under the id, or null
get(id) == conversations[id]

\* getAllMessages(): the stored messages, [] when the conversation is absent
getAllMessages(id) ==
    IF get(id).exists THEN get(id).messages ELSE <<>>

\* estimateTokens(): characters / 4, rounded up
estimateTokens(id) == ceilDiv(totalChars(getAllMessages(id)), CHARS_PER_TOKEN)

\* a create that forgets to look for an existing conversation
createNeverThrows(id) == FALSE

\* create(seedMessages): rejected when a conversation with the id exists
createThrows(id) == conversations[id].exists

created(id, seedMessages) ==
    [conversations EXCEPT ![id] = [exists |-> TRUE, messages |-> seedMessages]]

\* add(message): rejected when the conversation does not exist
addThrows(id) == ~conversations[id].exists

\* an add that puts the message in front of the others
addedInFront(id, message) ==
    [conversations EXCEPT ![id].messages = <<message>> \o @]

\* repository.add: conversation.messages.push(message)
added(id, message) ==
    [conversations EXCEPT ![id].messages = Append(@, message)]

\* repository.update(id, messages): rejected when the conversation does not exist
updateThrows(id) == ~conversations[id].exists

updated(id, messages) ==
    [conversations EXCEPT ![id].messages = messages]

\* a message check that lets everything through
messageSchemaAny(message) == TRUE

\* messageSchema: role is system, user or assistant and content is a string
messageSchema(message) ==
    /\ message.role \in {"system", "user", "assistant"}
    /\ message.content # NONE

ConversationAlreadyExistsError(id) == "Conversation " \o id \o " already exists"
ConversationNotFoundError(id) == "Conversation " \o id \o " not found"

-----------------------------------------------------------------------------
(* Tool registry: InMemoryToolRegistry with the tools of the test fixtures *)

ToolResult(success, data, error) ==
    [success |-> success, data |-> data, error |-> error]

\* a tool: its metadata, its argsSchema and its execute function
echoTool == [name |-> "echo", description |-> "Echoes the input message",
             parameters |-> "{\"message\":\"string - Message to echo\"}",
             argsSchema |-> "{message: string}", execute |-> "echo"]
errorTool == [name |-> "error_tool", description |-> "Always throws an error",
              parameters |-> "{}",
              argsSchema |-> "{}", execute |-> "throws"]
failTool == [name |-> "fail_tool", description |-> "Always fails",
             parameters |-> "{}",
             argsSchema |-> "{}", execute |-> "fails"]
\* a second tool that goes by the name of the first
shoutTool == [name |-> "echo", description |-> "Echoes the input message in capitals",
              parameters |-> "{\"message\":\"string - Message to shout\"}",
              argsSchema |-> "{message: string}", execute |-> "shout"]

\* a tool that reports a failure and gives no reason
quietTool == [name |-> "quiet_tool", description |-> "Fails without a word",
              parameters |-> "{}",
              argsSchema |-> "{}", execute |-> "quiet"]

\* the args objects a tool call may carry
ArgsChoices == {"{\"message\":\"test\"}", "{}", "{\"wrong_field\":\"test\"}",
                "{\"message\":\"test\",\"extra\":1}"}

\* a schema check that lets everything through, unparsed
safeParseAccepts(schema, args) ==
    [success |-> TRUE, data |-> args, fieldErrors |-> NONE]

\* argsSchema.safeParse(args): a z.object keeps the keys it knows and drops
\* the others; a missing or mistyped key is a failure
safeParse(schema, args) ==
    IF schema = "{message: string}"
    THEN IF args \in {"{\"message\":\"test\"}", "{\"message\":\"test\",\"extra\":1}"}
         THEN [success |-> TRUE, data |-> "{\"message\":\"test\"}",
               fieldErrors |-> NONE]
         ELSE [success |-> FALSE, data |-> NONE,
               fieldErrors |-> "{\"message\":[\"Invalid input: expected string, received undefined\"]}"]
    ELSE [success |-> TRUE, data |-> "{}", fieldErrors |-> NONE]

\* args.message, as JSON; undefined when the key is missing
messageOf(args) ==
    IF args \in {"{\"message\":\"test\"}", "{\"message\":\"test\",\"extra\":1}"}
    THEN "\"test\"" ELSE NONE

\* tool.execute(args): what it returns, or the message of what it throws
toolExecute(tool, args) ==
    CASE tool.execute = "echo" ->
           [threw |-> FALSE, value |-> ToolResult(TRUE, messageOf(args), NONE),
            message |-> NONE]
      [] tool.execute = "shout" ->
           [threw |-> FALSE,
            value |-> ToolResult(TRUE, IF messageOf(args) = NONE THEN NONE
                                       ELSE "\"TEST\"", NONE),
            message |-> NONE]
      [] tool.execute = "quiet" ->
           [threw |-> FALSE, value |-> ToolResult(FALSE, NONE, NONE),
            message |-> NONE]
      [] tool.execute = "throws" ->
           [threw |-> TRUE, value |-> ToolResult(FALSE, NONE, NONE),
            message |-> "Tool execution failed"]
      [] OTHER ->
           [threw |-> FALSE, value |-> ToolResult(FALSE, NONE, "Tool failed"),
            message |-> NONE]

\* this.tools.has(name), this.tools.get(name)
registered(name) == \E k \in 1..Len(tools) : tools[k].name = name
lookup(name) == tools[CHOOSE k \in 1..Len(tools) : tools[k].name = name]

ToolAlreadyRegisteredError(name) == "Tool '" \o name \o "' is already registered"

\* a register that forgets to look for the name
registerNeverThrows(name) == FALSE

\* register(tool): rejected when the name is taken
registerThrows(name) == registered(name)

\* this.tools.set(name, tool): a new key goes last, a known key keeps its place
mapSet(ts, tool) ==
    IF \E k \in 1..Len(ts) : ts[k].name = tool.name
    THEN [k \in 1..Len(ts) |-> IF ts[k].name = tool.name THEN tool ELSE ts[k]]
    ELSE Append(ts, tool)

\* a list that shows the newest tool first
listNewestFirst ==
    [k \in 1..Len(tools) |->
        [name |-> tools[Len(tools) + 1 - k].name,
         description |-> tools[Len(tools) + 1 - k].description,
         parameters |-> tools[Len(tools) + 1 - k].parameters]]

\* list(): the metadata of the tools, in registration order
list ==
    [k \in 1..Len(tools) |->
        [name |-> tools[k].name, description |-> tools[k].description,
         parameters |-> tools[k].parameters]]

\* the answer for an unknown tool that does not say which
notFoundUnnamed(name) == ToolResult(FALSE, NONE, "Tool not found")

\* execute: the tool is not registered
notFound(name) == ToolResult(FALSE, NONE, "Tool '" \o name \o "' not found")

\* a refusal of the args that gives no reason
invalidArgumentsSilent(name, fieldErrors) == ToolResult(FALSE, NONE, NONE)

\* execute: the args failed the tool's schema
invalidArguments(name, fieldErrors) ==
    ToolResult(FALSE, NONE,
               "Invalid arguments for tool '" \o name \o "': " \o fieldErrors)

\* a registry that lets the tool's exception through
rethrowToolError(name, message) ==
    [threw |-> TRUE, value |-> ToolResult(FALSE, NONE, NONE), message |-> message]

\* execute: catch (error) { return { success: false, error: `Tool '...' failed: ...` } }
catchToolError(name, message) ==
    [threw |-> FALSE,
     value |-> ToolResult(FALSE, NONE, "Tool '" \o name \o "' failed: " \o message),
     message |-> NONE]

\* ToolRegistry.execute(toolCall): whether it throws, the value it returns,
\* and the invocations of tool.execute it made
registryExecute(name, args) ==
    IF ~registered(name)
    THEN [threw |-> FALSE, value |-> notFound(name), message |-> NONE,
          invoked |-> <<>>]
    ELSE LET tool == lookup(name)
             validationResult == safeParse(tool.argsSchema, args)
         IN  IF ~validationResult.success
             THEN [threw |-> FALSE,
                   value |-> invalidArguments(name, validationResult.fieldErrors),
                   message |-> NONE, invoked |-> <<>>]
             ELSE LET outcome == toolExecute(tool, validationResult.data)
                      call == [tool |-> tool, args |-> validationResult.data]
                      end == IF outcome.threw
                             THEN catchToolError(name, outcome.message)
                             ELSE outcome
                  IN  [threw |-> end.threw, value |-> end.value,
                       message |-> end.message, invoked |-> <<call>>]

\* JSON.stringify of a string: quotes and backslashes are escaped
jsonString(text) ==
    IF text = "Invalid arguments for tool 'echo': {\"message\":[\"Invalid input: expected string, received undefined\"]}"
    THEN "\"Invalid arguments for tool 'echo': {\\\"message\\\":[\\\"Invalid input: expected string, received undefined\\\"]}\""
    ELSE "\"" \o text \o "\""

\* the result serialized without its envelope
stringifyToolResultBare(r) ==
    "{\"success\":" \o (IF r.success THEN "true" ELSE "false")
    \o (IF r.data # NONE THEN ",\"data\":" \o r.data ELSE "")
    \o (IF r.error # NONE THEN ",\"error\":" \o jsonString(r.error) ELSE "")
    \o "}"

\* JSON.stringify({ tool_result: toolResult })
stringifyToolResult(r) ==
    "{\"tool_result\":{\"success\":" \o (IF r.success THEN "true" ELSE "false")
    \o (IF r.data # NONE THEN ",\"data\":" \o r.data ELSE "")
    \o (IF r.error # NONE THEN ",\"error\":" \o jsonString(r.error) ELSE "")
    \o "}}"

\* tools.list().map(...).join('\n') of the parse error feedback
RECURSIVE toolList(_)
toolList(ts) ==
    IF ts = <<>> THEN ""
    ELSE "- " \o Head(ts).name \o ": " \o Head(ts).description
         \o "\n  Args: " \o Head(ts).parameters
         \o (IF Tail(ts) = <<>> THEN "" ELSE "\n" \o toolList(Tail(ts)))

-----------------------------------------------------------------------------
(* Helpers of the agent loop *)

buildParseErrorMessage(error) ==
    Message("system",
            error \o "\n\nAvailable tools:\n" \o toolList(list)
            \o "\n\nUse JSON format: { \"tool\": \"name\", \"args\": {...} }"
            \o "\nOr complete with: { \"done\": true, \"response\": \"...\" }")

\* the validation feedback sent in the assistant's name
buildValidationErrorMessageAsAssistant(errors) ==
    Message("assistant", "Response validation failed:\n" \o errors)

buildValidationErrorMessage(errors) ==
    Message("system",
            "Response validation failed:\n" \o errors
            \o "\n\nExpected format:\nTool call: { \"tool\": \"name\", \"args\": {...} }"
            \o "\nCompletion: { \"done\": true, \"response\": \"...\" }")

\* the entry validation without the trim: whitespace passes
validateInputsNoTrim(input, prompt) ==
    IF input = "" THEN "User input cannot be empty"
    ELSE IF prompt = "" THEN "System prompt cannot be empty"
    ELSE NONE

validateInputs(input, prompt) ==
    IF trim(input) = "" THEN "User input cannot be empty"
    ELSE IF trim(prompt) = "" THEN "System prompt cannot be empty"
    ELSE NONE

\* the limit check with the threshold forgotten
checkContextLimitNoThreshold(tokens, limit) == tokens > limit

\* estimatedTokens > maxTokens * threshold, the threshold being 4/5
checkContextLimit(tokens, limit) ==
    tokens * ThresholdDen > limit * ThresholdNum

\* a result that reports counters of its own, all zero
createResultZeroed(message, m, isError) ==
    IF isError
    THEN [success |-> FALSE, error |-> message, response |-> NONE,
          metrics |-> [iterations |-> 0, toolCalls |-> 0, parseErrors |-> 0,
                       toolFailures |-> 0, contextLimitReached |-> FALSE]]
    ELSE [success |-> TRUE, error |-> NONE, response |-> message,
          metrics |-> [iterations |-> 0, toolCalls |-> 0, parseErrors |-> 0,
                       toolFailures |-> 0, contextLimitReached |-> FALSE]]

createResult(message, m, isError) ==
    IF isError
    THEN [success |-> FALSE, error |-> message, response |-> NONE, metrics |-> m]
    ELSE [success |-> TRUE, error |-> NONE, response |-> message, metrics |-> m]

ContextLimitError(tokens) == "Context limit reached (" \o ToString(tokens) \o " tokens)."
MaxIterationsError(n) == "Max iterations (" \o ToString(n) \o ") exceeded."
AgentError(message) == "Agent error: " \o message

\* before the first invocation: nothing has been counted
NoMetrics == [iterations |-> 0, toolCalls |-> 0, parseErrors |-> 0,
              toolFailures |-> 0, contextLimitReached |-> FALSE]

\* one metrics object for all invocations: the counters run on
sharedMetrics == metrics

\* const metrics: AgentMetrics = { iterations: 0, ... }, a new object per invocation
NewMetrics == [iterations |-> 0, toolCalls |-> 0, parseErrors |-> 0,
               toolFailures |-> 0, contextLimitReached |-> FALSE]

NoResult == [success |-> FALSE, error |-> NONE, response |-> NONE,
             metrics |-> NoMetrics]

-----------------------------------------------------------------------------
(* Observations of the run in flight; they record what has happened and    *)
(* influence nothing.                                                      *)

NewHist(id) ==
    [chats |-> 0,            \* llm.chat calls of the run
     toolExecs |-> 0,        \* tools.execute calls of the run
     storeOps |-> 0,         \* conversation store calls of the run
     threw |-> FALSE,        \* a service call of the run threw
     emptyAtStart |-> getAllMessages(id) = <<>>,
     atStart |-> conversations[id].messages,   \* the messages the run found
     enteredLoop |-> FALSE,  \* the run reached the for loop
     checkedAt |-> 0,        \* iteration of the last context limit check
     exceededAt |-> 0,       \* iteration whose check found the limit exceeded
     chatAt |-> 0,           \* iteration of the last llm.chat call
     completionAt |-> 0,     \* iteration whose reply was a valid Completion
     completion |-> NONE,    \* the response field of that Completion
     priorLimit |-> 0,       \* maxTokens of an earlier run on the conversation, not
                             \* cleared since, that met the context limit (0: none)
     returned |-> FALSE]     \* the run has returned and the store is as it left it

\* the observations at the start of a run: what is remembered of earlier runs
\* on the conversation as they left it
Began(id) ==
    [NewHist(id) EXCEPT !.priorLimit =
        IF ~hist.returned \/ id # conversationId THEN 0
        ELSE IF hist.exceededAt > 0 THEN maxTokens
        ELSE hist.priorLimit]

ResetLocals ==
    /\ estimatedTokens' = 0
    /\ currentMessages' = <<>>
    /\ llmResult' = NONE
    /\ validated' = NoData
    /\ toolResult' = ToolResult(FALSE, NONE, NONE)
    /\ pendingMessage' = NoMessage

\* return createResult(...)
Return(res, h) ==
    /\ result' = res
    /\ pc' = "idle"
    /\ hist' = [h EXCEPT !.returned = TRUE]
    /\ ResetLocals

\* a catch that swallows the exception and goes round the loop again
CatchAndRetry(message, h) ==
    /\ result' = result
    /\ pc' = "loop"
    /\ hist' = [h EXCEPT !.threw = TRUE]
    /\ ResetLocals

\* catch (error) { return createResult(`Agent error: ${errorMessage}`, metrics, true) }
Catch(message, h) ==
    /\ Return(createResult(AgentError(message), metrics, TRUE), [h EXCEPT !.threw = TRUE])

StoreOp(h) == [h EXCEPT !.storeOps = @ + 1]

-----------------------------------------------------------------------------
(* Callers of the conversation service.  Each holds a service built with one
   conversation id; an async method runs to its first await when it is called
   and from there to its end when it is resumed. *)

Callers == {1, 2}

StoreIds == {"c1", "c2"}

MaxMessages == 2         \* add is not called on a conversation that holds this many

NoCall == [op |-> "none", at |-> "done", message |-> NoMessage, seed |-> <<>>,
           existed |-> FALSE, messages |-> <<>>, tokens |-> 0, thrown |-> NONE]

NoObservation == [seed |-> <<>>, adds |-> <<>>, got |-> <<>>]

NoCallers ==
    /\ bound = [c \in Callers |-> "c1"]
    /\ inflight = [c \in Callers |-> NoCall]
    /\ observed = [id \in ConversationIds |-> NoObservation]

\* const ... = await this.repository.get(this.conversationId)
Awaiting(c, op, message, seed) ==
    [op |-> op, at |-> "awaiting", message |-> message, seed |-> seed,
     existed |-> get(bound[c]).exists, messages |-> getAllMessages(bound[c]),
     tokens |-> 0, thrown |-> NONE]

\* the call has returned (thrown = NONE) or thrown
Done(request, returned, count, error) ==
    [request EXCEPT !.at = "done", !.messages = returned, !.tokens = count,
                    !.thrown = error]

IsPrefix(s, t) == Len(s) <= Len(t) /\ SubSeq(t, 1, Len(s)) = s

-----------------------------------------------------------------------------
(* runAgent *)

Init ==
    /\ conversations = [id \in ConversationIds |-> NoConversation]
    /\ tools = <<echoTool, errorTool, failTool>>
    /\ thrown = NONE
    /\ invoked = <<>>
    /\ stage = "raw"
    /\ rawResponse = <<>>
    /\ stripped = <<>>
    /\ parsed = NotJson
    /\ verdict = NoValidation
    /\ NoCallers
    /\ pc = "idle"
    /\ conversationId = "c1"
    /\ userInput = ""
    /\ systemPrompt = ""
    /\ maxIterations = 0
    /\ maxTokens = 0
    /\ i = 0
    /\ metrics = NoMetrics
    /\ estimatedTokens = 0
    /\ currentMessages = <<>>
    /\ llmResult = NONE
    /\ validated = NoData
    /\ toolResult = ToolResult(FALSE, NONE, NONE)
    /\ pendingMessage = NoMessage
    /\ result = NoResult
    /\ runs = 0
    /\ totalChats = 0
    /\ hist = NewHist("c1")

\* entry: merge the config, fresh metrics, validateInputs
RunAgent(id, input, prompt, iterations, tokens) ==
    /\ pc = "idle"
    /\ runs < MaxRuns
    /\ totalChats + Max(iterations, 0) <= MaxTotalChats
    /\ runs' = runs + 1
    /\ conversationId' = id
    /\ userInput' = input
    /\ systemPrompt' = prompt
    /\ maxIterations' = iterations
    /\ maxTokens' = tokens
    /\ metrics' = NewMetrics
    /\ i' = 0
    /\ IF validateInputs(input, prompt) # NONE
       THEN Return(createResult(validateInputs(input, prompt), NewMetrics, TRUE),
                   Began(id))
       ELSE /\ pc' = "ensureGetAll"
            /\ hist' = Began(id)
            /\ result' = NoResult
            /\ ResetLocals
    /\ UNCHANGED <<conversations, registry, parser, callers, totalChats>>

\* ensureConversationInitialized: const messages = await getAllMessages()
EnsureGetAll ==
    /\ pc = "ensureGetAll"
    /\ pc' = IF Len(getAllMessages(conversationId)) = 0
             THEN "ensureCreate" ELSE "addUser"
    /\ hist' = StoreOp(hist)
    /\ UNCHANGED <<conversations, registry, parser, callers, runArgs, i, metrics, runLocals,
                   result, runs, totalChats>>

\* ensureConversationInitialized: await create([{ role: 'system', content: systemPrompt }])
EnsureCreate ==
    /\ pc = "ensureCreate"
    /\ IF createThrows(conversationId)
       THEN /\ Catch(ConversationAlreadyExistsError(conversationId), StoreOp(hist))
            /\ UNCHANGED conversations
       ELSE /\ conversations' = created(conversationId,
                                        <<Message("system", systemPrompt)>>)
            /\ pc' = "addUser"
            /\ hist' = StoreOp(hist)
            /\ UNCHANGED <<runLocals, result>>
    /\ UNCHANGED <<registry, parser, callers, runArgs, i, metrics, runs, totalChats>>

\* await conversation.add({ role: 'user', content: userInput })
AddUser ==
    /\ pc = "addUser"
    /\ IF addThrows(conversationId)
       THEN /\ Catch(ConversationNotFoundError(conversationId), StoreOp(hist))
            /\ UNCHANGED conversations
       ELSE /\ conversations' = added(conversationId, Message("user", userInput))
            /\ pc' = "loop"
            /\ hist' = [StoreOp(hist) EXCEPT !.enteredLoop = TRUE]
            /\ UNCHANGED <<runLocals, result>>
    /\ UNCHANGED <<registry, parser, callers, runArgs, i, metrics, runs, totalChats>>

\* the loop condition with an off-by-one: one pass too many
loopConditionInclusive(k, limit) == k <= limit

\* i < maxIterations
loopCondition(k, limit) == k < limit

\* for (let i = 0; i < maxIterations; i++) { metrics.iterations++; ...
\* and, after the loop, the max iterations failure
LoopHead ==
    /\ pc = "loop"
    /\ IF loopCondition(i, maxIterations)
       THEN /\ metrics' = [metrics EXCEPT !.iterations = @ + 1]
            /\ pc' = "estimate"
            /\ UNCHANGED <<runLocals, result, hist>>
       ELSE /\ Return(createResult(MaxIterationsError(maxIterations), metrics, TRUE),
                   hist)
            /\ UNCHANGED metrics
    /\ UNCHANGED <<conversations, registry, parser, callers, runArgs, i, runs, totalChats>>

\* const estimatedTokens = await estimateTokens(); checkContextLimit
Estimate ==
    /\ pc = "estimate"
    /\ LET tokens == estimateTokens(conversationId)
           h == [StoreOp(hist) EXCEPT !.checkedAt = metrics.iterations]
       IN  IF checkContextLimit(tokens, maxTokens)
           THEN /\ metrics' = [metrics EXCEPT !.contextLimitReached = TRUE]
                /\ Return(createResult(ContextLimitError(tokens), metrics', TRUE),
                          [h EXCEPT !.exceededAt = metrics.iterations])
           ELSE /\ estimatedTokens' = tokens
                /\ pc' = "getMessages"
                /\ hist' = h
                /\ UNCHANGED <<metrics, result, currentMessages, llmResult,
                               validated, toolResult, pendingMessage>>
    /\ UNCHANGED <<conversations, registry, parser, callers, runArgs, i, runs, totalChats>>

\* const currentMessages = await getAllMessages()
GetMessages ==
    /\ pc = "getMessages"
    /\ currentMessages' = getAllMessages(conversationId)
    /\ pc' = "chat"
    /\ hist' = StoreOp(hist)
    /\ UNCHANGED <<conversations, registry, parser, callers, runArgs, i, metrics, estimatedTokens,
                   llmResult, validated, toolResult, pendingMessage, result,
                   runs, totalChats>>

\* a log that keeps the extracted response text instead of the raw reply
completionMessageExtracted(completion, llmContent) ==
    Message("assistant", completion.response)

\* handleCompletion: { role: 'assistant', content: llmContent }
completionMessage(completion, llmContent) ==
    Message("assistant", llmContent)

\* const llmResult = await llm.chat(currentMessages), then the routing of the
\* reply up to the next await: safeParseJson, validateResponse, the branch
ChatReturns(content) ==
    LET parseResult == safeParseJson(content)
        validation == validateResponse(parseResult.data)
        h == [hist EXCEPT !.chats = @ + 1, !.chatAt = metrics.iterations]
    IN  /\ llmResult' = content
        /\ IF ~parseResult.success
           THEN /\ metrics' = [metrics EXCEPT !.parseErrors = @ + 1]
                /\ pendingMessage' = buildParseErrorMessage(parseResult.error)
                /\ validated' = NoData
                /\ pc' = "addErrorMessage"
                /\ hist' = h
           ELSE IF ~validation.success
           THEN /\ metrics' = [metrics EXCEPT !.parseErrors = @ + 1]
                /\ pendingMessage' = buildValidationErrorMessage(validation.errors)
                /\ validated' = NoData
                /\ pc' = "addErrorMessage"
                /\ hist' = h
           ELSE IF validation.data.kind = "tool"
           THEN \* executeToolAndUpdateConversation up to tools.execute
                /\ metrics' = [metrics EXCEPT !.toolCalls = @ + 1]
                /\ validated' = validation.data
                /\ pc' = "toolExecute"
                /\ hist' = h
                /\ UNCHANGED pendingMessage
           ELSE \* handleCompletion up to conversation.add
                /\ validated' = validation.data
                /\ pendingMessage' = completionMessage(validation.data, content)
                /\ pc' = "addCompletion"
                /\ hist' = [h EXCEPT !.completionAt = metrics.iterations,
                                     !.completion = validation.data.response]
                /\ UNCHANGED metrics
        /\ UNCHANGED <<estimatedTokens, currentMessages, toolResult, result>>

\* llm.chat rejects (OllamaApiError / LlmError)
ChatThrows ==
    /\ Catch("LLM request failed: Network error",
             [hist EXCEPT !.chats = @ + 1, !.chatAt = metrics.iterations])
    /\ UNCHANGED metrics

Chat ==
    /\ pc = "chat"
    /\ totalChats < MaxTotalChats
    /\ totalChats' = totalChats + 1
    /\ \/ \E content \in LlmContents : ChatReturns(content)
       \/ ChatThrows
    /\ UNCHANGED <<conversations, registry, parser, callers, runArgs, i, runs>>

\* await conversation.add(errorMessage); continue
AddErrorMessage ==
    /\ pc = "addErrorMessage"
    /\ IF addThrows(conversationId)
       THEN /\ Catch(ConversationNotFoundError(conversationId), StoreOp(hist))
            /\ UNCHANGED <<conversations, i>>
       ELSE /\ conversations' = added(conversationId, pendingMessage)
            /\ pc' = "loop"
            /\ i' = i + 1
            /\ hist' = StoreOp(hist)
            /\ ResetLocals
            /\ UNCHANGED result
    /\ UNCHANGED <<registry, parser, callers, runArgs, metrics, runs, totalChats>>

\* the failure count with the test inverted
countToolFailureInverted(m, r) ==
    IF r.success THEN [m EXCEPT !.toolFailures = @ + 1] ELSE m

\* if (!toolResult.success) { metrics.toolFailures++ }
countToolFailure(m, r) ==
    IF ~r.success THEN [m EXCEPT !.toolFailures = @ + 1] ELSE m

\* const toolResult = await tools.execute(...); the failure count; the envelope
ToolExecute ==
    /\ pc = "toolExecute"
    /\ LET r == registryExecute(validated.tool, validated.args).value
       IN  /\ toolResult' = r
           /\ metrics' = countToolFailure(metrics, r)
           /\ pendingMessage' = Message("assistant", stringifyToolResult(r))
    /\ pc' = "addToolResult"
    /\ hist' = [hist EXCEPT !.toolExecs = @ + 1]
    /\ UNCHANGED <<conversations, registry, parser, callers, runArgs, i, estimatedTokens,
                   currentMessages, llmResult, validated, result, runs,
                   totalChats>>

\* await conversation.add({ role: 'assistant', content: JSON.stringify(...) }); continue
AddToolResult ==
    /\ pc = "addToolResult"
    /\ IF addThrows(conversationId)
       THEN /\ Catch(ConversationNotFoundError(conversationId), StoreOp(hist))
            /\ UNCHANGED <<conversations, i>>
       ELSE /\ conversations' = added(conversationId, pendingMessage)
            /\ pc' = "loop"
            /\ i' = i + 1
            /\ hist' = StoreOp(hist)
            /\ ResetLocals
            /\ UNCHANGED result
    /\ UNCHANGED <<registry, parser, callers, runArgs, metrics, runs, totalChats>>

\* the completion handler returning the raw model text
handleCompletionRaw(completion, llmContent) == llmContent

\* handleCompletion: what it returns, the extracted response text
handleCompletion(completion, llmContent) == completion.response

\* handleCompletion: await conversation.add({ role: 'assistant', content: llmContent });
\* return createResult(response, metrics)
AddCompletion ==
    /\ pc = "addCompletion"
    /\ IF addThrows(conversationId)
       THEN /\ Catch(ConversationNotFoundError(conversationId), StoreOp(hist))
            /\ UNCHANGED conversations
       ELSE /\ conversations' = added(conversationId, pendingMessage)
            /\ Return(createResult(handleCompletion(validated, pendingMessage.content),
                                    metrics, FALSE),
                      StoreOp(hist))
    /\ UNCHANGED <<registry, parser, callers, runArgs, i, metrics, runs, totalChats>>

-----------------------------------------------------------------------------
(* What the caller does to the store between two runs *)

\* ConversationService.clear(): empties the message list, keeps the record
Clear(id) ==
    /\ pc = "idle"
    /\ conversations[id].exists
    /\ conversations' = [conversations EXCEPT ![id].messages = <<>>]
    /\ hist' = [hist EXCEPT !.returned = FALSE, !.atStart = <<>>, !.priorLimit = 0]
    /\ UNCHANGED <<registry, parser, callers, pc, runArgs, i, metrics, runLocals, result, runs,
                   totalChats>>

\* ConversationRepository.delete(id): removes the record
Delete(id) ==
    /\ pc = "idle"
    /\ conversations[id].exists
    /\ conversations' = [conversations EXCEPT ![id] = NoConversation]
    /\ hist' = [hist EXCEPT !.returned = FALSE, !.atStart = <<>>, !.priorLimit = 0]
    /\ UNCHANGED <<registry, parser, callers, pc, runArgs, i, metrics, runLocals, result, runs,
                   totalChats>>

-----------------------------------------------------------------------------
(* The tool registry on its own: tools are registered and called directly *)

ToolPool == {echoTool, errorTool, failTool, shoutTool, quietTool}

ToolNames == {"echo", "error_tool", "fail_tool", "quiet_tool", "non_existent"}

RegistryInit ==
    /\ conversations = [id \in ConversationIds |-> NoConversation]
    /\ tools = <<>>
    /\ thrown = NONE
    /\ invoked = <<>>
    /\ stage = "raw"
    /\ rawResponse = <<>>
    /\ stripped = <<>>
    /\ parsed = NotJson
    /\ verdict = NoValidation
    /\ NoCallers
    /\ pc = "idle"
    /\ conversationId = "c1"
    /\ userInput = ""
    /\ systemPrompt = ""
    /\ maxIterations = 0
    /\ maxTokens = 0
    /\ i = 0
    /\ metrics = NoMetrics
    /\ estimatedTokens = 0
    /\ currentMessages = <<>>
    /\ llmResult = NONE
    /\ validated = NoData
    /\ toolResult = ToolResult(FALSE, NONE, NONE)
    /\ pendingMessage = NoMessage
    /\ result = NoResult
    /\ runs = 0
    /\ totalChats = 0
    /\ hist = NewHist("c1")

\* toolRegistry.register(tool)
Register(tool) ==
    /\ IF registerThrows(tool.name)
       THEN /\ thrown' = ToolAlreadyRegisteredError(tool.name)
            /\ tools' = tools
       ELSE /\ thrown' = NONE
            /\ tools' = mapSet(tools, tool)
    /\ invoked' = <<>>
    /\ toolResult' = ToolResult(FALSE, NONE, NONE)
    /\ UNCHANGED <<conversations, parser, callers, pc, runArgs, i, metrics,
                   estimatedTokens, currentMessages, llmResult, validated,
                   pendingMessage, result, runs, totalChats, hist>>

\* await toolRegistry.execute({ name, args })
Execute(name, args) ==
    /\ LET call == registryExecute(name, args)
       IN  /\ thrown' = (IF call.threw THEN call.message ELSE NONE)
           /\ toolResult' = call.value
           /\ invoked' = call.invoked
    /\ UNCHANGED <<conversations, tools, parser, callers, pc, runArgs, i, metrics,
                   estimatedTokens, currentMessages, llmResult, validated,
                   pendingMessage, result, runs, totalChats, hist>>

RegistryNext ==
    \/ \E tool \in ToolPool : Register(tool)
    \/ \E name \in ToolNames, args \in ArgsChoices : Execute(name, args)

RegistrySpec == RegistryInit /\ [][RegistryNext]_vars

-----------------------------------------------------------------------------
(* The parser and the validator on their own: a response is taken through  *)
(* stripMarkdown, JSON.parse and validateResponse, or a parsed value is     *)
(* handed to the validator directly.                                        *)

Whitespace == {<<>>, <<" ">>, <<"\n">>}
Opens == {<<>>, Fence, FenceJson}
Closes == {<<>>, Fence}

\* the body inside up to two fences, with white space at every joint
WrappedTexts(body) ==
    {w1 \o o2 \o w2 \o o1 \o w3 \o <<body>> \o w4 \o c1 \o w5 \o c2 \o w6 :
        w1 \in Whitespace, w2 \in Whitespace, w3 \in Whitespace,
        w4 \in Whitespace, w5 \in Whitespace, w6 \in Whitespace,
        o1 \in Opens, o2 \in Opens, c1 \in Closes, c2 \in Closes}

ParserInputs ==
    WrappedTexts("{\"done\": true, \"response\": \"Hello, I can help you!\"}")
    \cup {<<t.content>> : t \in JsonTexts}
    \cup {Fence \o <<"json", "\n", t.content, "\n">> \o Fence : t \in JsonTexts}
    \cup {<<>>, <<Tick>>, <<Tick, Tick, Tick, Tick>>, FenceJson \o <<"\n", "\n">> \o Fence}

\* the members a parsed object may have under each key; <<>> is the key left out
DoneChoices == {<<>>, <<"done", "boolean", "true">>, <<"done", "boolean", "false">>,
                <<"done", "string", "true">>, <<"done", "number", "1">>}
ResponseChoices == {<<>>, <<"response", "string", "Complete">>,
                    <<"response", "number", "123">>, <<"response", "null", "null">>}
ToolChoices == {<<>>, <<"tool", "string", "file_read">>, <<"tool", "number", "7">>}
RecordChoices == {<<>>, <<"args", "object", "{}">>,
                  <<"args", "object", "{\"path\":\"test.txt\"}">>,
                  <<"args", "string", "should be object">>,
                  <<"args", "array", "[1,2,3]">>, <<"args", "null", "null">>}
ExtraChoices == {<<>>, <<"extra", "string", "field">>}

JsonValues ==
    {JsonObject({d, r, t, a, x} \ {<<>>}) :
        d \in DoneChoices, r \in ResponseChoices, t \in ToolChoices,
        a \in RecordChoices, x \in ExtraChoices}
    \cup {[type |-> other, members |-> {}] :
            other \in {"string", "number", "array", "null", "boolean"}}

ParserInit ==
    /\ conversations = [id \in ConversationIds |-> NoConversation]
    /\ tools = <<>>
    /\ thrown = NONE
    /\ invoked = <<>>
    /\ \/ /\ stage = "raw"
          /\ rawResponse \in ParserInputs
          /\ parsed = NotJson
       \/ /\ stage = "parsed"
          /\ rawResponse = <<>>
          /\ parsed \in JsonValues
    /\ stripped = <<>>
    /\ verdict = NoValidation
    /\ NoCallers
    /\ pc = "idle"
    /\ conversationId = "c1"
    /\ userInput = ""
    /\ systemPrompt = ""
    /\ maxIterations = 0
    /\ maxTokens = 0
    /\ i = 0
    /\ metrics = NoMetrics
    /\ estimatedTokens = 0
    /\ currentMessages = <<>>
    /\ llmResult = NONE
    /\ validated = NoData
    /\ toolResult = ToolResult(FALSE, NONE, NONE)
    /\ pendingMessage = NoMessage
    /\ result = NoResult
    /\ runs = 0
    /\ totalChats = 0
    /\ hist = NewHist("c1")

notParser == <<conversations, registry, callers, pc, runArgs, i, metrics, runLocals,
               result, runs, totalChats, hist>>

\* const stripped = stripMarkdown(rawResponse)
StripMarkdown ==
    /\ stage = "raw"
    /\ stripped' = stripMarkdown(rawResponse)
    /\ stage' = "stripped"
    /\ UNCHANGED <<rawResponse, parsed, verdict, notParser>>

\* parsed = JSON.parse(stripped), or the JsonParseError
JsonParse ==
    /\ stage = "stripped"
    /\ LET parseResult == jsonParse(stripped)
       IN  /\ parsed' = parseResult.data
           /\ stage' = IF parseResult.success THEN "parsed" ELSE "parse error"
    /\ UNCHANGED <<rawResponse, stripped, verdict, notParser>>

\* the two schemas: the completion first, then the tool call
Validate ==
    /\ stage = "parsed"
    /\ verdict' = validateResponse(parsed)
    /\ stage' = "validated"
    /\ UNCHANGED <<rawResponse, stripped, parsed, notParser>>

ParserNext == StripMarkdown \/ JsonParse \/ Validate

ParserSpec == ParserInit /\ [][ParserNext]_vars

-----------------------------------------------------------------------------
(* The conversation service on its own: two callers, each with a service of
   its own over the one repository, call its methods in any interleaving *)

StoreMessages == {Message("user", "Hello"), Message("assistant", "Hi there!"),
                  Message("invalid", "test"), Message("user", NONE)}

SeedChoices == {<<>>, <<Message("system", "Be kind")>>}

StoreInit ==
    /\ conversations = [id \in StoreIds |-> NoConversation]
    /\ bound \in {[c \in Callers |-> "c1"],
                  [c \in Callers |-> IF c = 1 THEN "c1" ELSE "c2"]}
    /\ inflight = [c \in Callers |-> NoCall]
    /\ observed = [id \in StoreIds |-> NoObservation]
    /\ tools = <<>>
    /\ thrown = NONE
    /\ invoked = <<>>
    /\ stage = "raw"
    /\ rawResponse = <<>>
    /\ stripped = <<>>
    /\ parsed = NotJson
    /\ verdict = NoValidation
    /\ pc = "idle"
    /\ conversationId = "c1"
    /\ userInput = ""
    /\ systemPrompt = ""
    /\ maxIterations = 0
    /\ maxTokens = 0
    /\ i = 0
    /\ metrics = NoMetrics
    /\ estimatedTokens = 0
    /\ currentMessages = <<>>
    /\ llmResult = NONE
    /\ validated = NoData
    /\ toolResult = ToolResult(FALSE, NONE, NONE)
    /\ pendingMessage = NoMessage
    /\ result = NoResult
    /\ runs = 0
    /\ totalChats = 0
    /\ hist = NewHist("c1")

notStore == <<registry, parser, pc, runArgs, i, metrics, runLocals, result, runs,
              totalChats, hist>>

\* create(seedMessages), up to: const existing = await this.repository.get(...)
CallCreate(c, seedMessages) ==
    /\ inflight[c].at = "done"
    /\ inflight' = [inflight EXCEPT ![c] = Awaiting(c, "create", NoMessage, seedMessages)]
    /\ UNCHANGED <<conversations, bound, observed, notStore>>

\* create, from there: throw if (existing), else await this.repository.create(...)
ResumeCreate(c) ==
    /\ inflight[c].op = "create"
    /\ inflight[c].at = "awaiting"
    /\ IF inflight[c].existed \/ createThrows(bound[c])
       THEN /\ inflight' = [inflight EXCEPT ![c] =
                    Done(@, <<>>, 0, ConversationAlreadyExistsError(bound[c]))]
            /\ UNCHANGED <<conversations, observed>>
       ELSE /\ conversations' = created(bound[c], inflight[c].seed)
            /\ inflight' = [inflight EXCEPT ![c] = Done(@, <<>>, 0, NONE)]
            /\ observed' = [observed EXCEPT ![bound[c]] =
                    [seed |-> inflight[c].seed, adds |-> <<>>, got |-> <<>>]]
    /\ UNCHANGED <<bound, notStore>>

\* add(message), up to: MessageSchema.parse(message); await this.repository.get(...)
CallAdd(c, message) ==
    /\ inflight[c].at = "done"
    /\ Len(conversations[bound[c]].messages) < MaxMessages
    /\ inflight' = [inflight EXCEPT ![c] =
            IF messageSchema(message)
            THEN Awaiting(c, "add", message, <<>>)
            ELSE Done([NoCall EXCEPT !.op = "add", !.message = message],
                      <<>>, 0, "ZodError")]
    /\ UNCHANGED <<conversations, bound, observed, notStore>>

\* add, from there: throw if (!conversation), else await this.repository.add(...)
ResumeAdd(c) ==
    /\ inflight[c].op = "add"
    /\ inflight[c].at = "awaiting"
    /\ IF ~inflight[c].existed \/ addThrows(bound[c])
       THEN /\ inflight' = [inflight EXCEPT ![c] =
                    Done(@, <<>>, 0, ConversationNotFoundError(bound[c]))]
            /\ UNCHANGED <<conversations, observed>>
       ELSE /\ conversations' = added(bound[c], inflight[c].message)
            /\ inflight' = [inflight EXCEPT ![c] = Done(@, <<>>, 0, NONE)]
            /\ observed' = [observed EXCEPT ![bound[c]].adds =
                    Append(@, inflight[c].message)]
    /\ UNCHANGED <<bound, notStore>>

\* getAll(), up to: const conversation = await this.repository.get(...)
CallGetAll(c) ==
    /\ inflight[c].at = "done"
    /\ inflight' = [inflight EXCEPT ![c] = Awaiting(c, "getAll", NoMessage, <<>>)]
    /\ observed' = [observed EXCEPT ![bound[c]].got = getAllMessages(bound[c])]
    /\ UNCHANGED <<conversations, bound, notStore>>

\* getAll, from there: return [] or conversation.messages
ResumeGetAll(c) ==
    /\ inflight[c].op = "getAll"
    /\ inflight[c].at = "awaiting"
    /\ inflight' = [inflight EXCEPT ![c] = Done(@, @.messages, 0, NONE)]
    /\ UNCHANGED <<conversations, bound, observed, notStore>>

\* clear(), up to: const conversation = await this.repository.get(...)
CallClear(c) ==
    /\ inflight[c].at = "done"
    /\ inflight' = [inflight EXCEPT ![c] = Awaiting(c, "clear", NoMessage, <<>>)]
    /\ UNCHANGED <<conversations, bound, observed, notStore>>

\* clear, from there: throw if (!conversation), else await this.repository.update(id, [])
ResumeClear(c) ==
    /\ inflight[c].op = "clear"
    /\ inflight[c].at = "awaiting"
    /\ IF ~inflight[c].existed \/ updateThrows(bound[c])
       THEN /\ inflight' = [inflight EXCEPT ![c] =
                    Done(@, <<>>, 0, ConversationNotFoundError(bound[c]))]
            /\ UNCHANGED <<conversations, observed>>
       ELSE /\ conversations' = updated(bound[c], <<>>)
            /\ inflight' = [inflight EXCEPT ![c] = Done(@, <<>>, 0, NONE)]
            /\ observed' = [observed EXCEPT ![bound[c]] = NoObservation]
    /\ UNCHANGED <<bound, notStore>>

\* estimateTokens(), up to: const messages = await this.getAll()
CallEstimateTokens(c) ==
    /\ inflight[c].at = "done"
    /\ inflight' = [inflight EXCEPT ![c] =
            Awaiting(c, "estimateTokens", NoMessage, <<>>)]
    /\ UNCHANGED <<conversations, bound, observed, notStore>>

\* estimateTokens, from there: return Math.ceil(totalChars / 4)
ResumeEstimateTokens(c) ==
    /\ inflight[c].op = "estimateTokens"
    /\ inflight[c].at = "awaiting"
    /\ inflight' = [inflight EXCEPT ![c] =
            Done(@, <<>>, ceilDiv(totalChars(@.messages), CHARS_PER_TOKEN), NONE)]
    /\ UNCHANGED <<conversations, bound, observed, notStore>>

StoreNext ==
    \E c \in Callers :
        \/ \E seedMessages \in SeedChoices : CallCreate(c, seedMessages)
        \/ ResumeCreate(c)
        \/ \E message \in StoreMessages : CallAdd(c, message)
        \/ ResumeAdd(c)
        \/ CallGetAll(c)
        \/ ResumeGetAll(c)
        \/ CallClear(c)
        \/ ResumeClear(c)
        \/ CallEstimateTokens(c)
        \/ ResumeEstimateTokens(c)

StoreSpec == StoreInit /\ [][StoreNext]_vars

-----------------------------------------------------------------------------

Start ==
    \E id \in ConversationIds, input \in UserInputs, prompt \in SystemPrompts,
       iterations \in MaxIterationsChoices, tokens \in MaxTokensChoices :
        RunAgent(id, input, prompt, iterations, tokens)

Step ==
    \/ EnsureGetAll
    \/ EnsureCreate
    \/ AddUser
    \/ LoopHead
    \/ Estimate
    \/ GetMessages
    \/ Chat
    \/ AddErrorMessage
    \/ ToolExecute
    \/ AddToolResult
    \/ AddCompletion

Next ==
    \/ Start
    \/ Step
    \/ \E id \in ConversationIds : Clear(id)
    \/ \E id \in ConversationIds : Delete(id)

Spec == Init /\ [][Next]_vars

\* every awaited call of the run in flight eventually returns or throws
LiveSpec == Spec /\ WF_vars(Step)

\* the invocation has returned, and the caller has not touched the store since
Returned == pc = "idle" /\ hist.returned

TypeOK ==
    /\ pc \in {"idle", "ensureGetAll", "ensureCreate", "addUser", "loop",
               "estimate", "getMessages", "chat", "addErrorMessage",
               "toolExecute", "addToolResult", "addCompletion"}
    /\ metrics.iterations \in Nat
    /\ runs \in 0..MaxRuns

-----------------------------------------------------------------------------
(* Termination and resource bounds *)

BlankTexts == {"", "   \n  \t  "}   \* the empty and whitespace-only inputs

ValidInputs == userInput \notin BlankTexts /\ systemPrompt \notin BlankTexts

Messages == conversations[conversationId].messages

Last(seq) == seq[Len(seq)]

C1_Bounded ==
    maxIterations >= 0 =>
        /\ hist.chats <= maxIterations
        /\ hist.toolExecs <= maxIterations

\* C1: for maxIterations >= 0, when every awaited service call returns or
\* throws, a runAgent invocation terminates, and at every moment it has issued
\* at most maxIterations model calls and at most maxIterations tool executions.
C1_Termination ==
    /\ [] C1_Bounded
    /\ (pc # "idle") ~> (pc = "idle")

\* a run has returned after spending its whole budget on tool calls
C1_Witness ==
    /\ Returned
    /\ maxIterations = 2
    /\ hist.chats = 2
    /\ hist.toolExecs = 2

-----------------------------------------------------------------------------
(* Exhausting the iteration budget *)

\* the run is over, passed entry validation, received no valid Completion,
\* never found the context limit exceeded, and no service threw
C2_Exhausted ==
    /\ Returned
    /\ ValidInputs
    /\ hist.completionAt = 0
    /\ hist.exceededAt = 0
    /\ ~hist.threw

\* C2 as stated: such a run fails with the max iterations error and reports
\* iterations == maxIterations (and toolCalls == maxIterations when every
\* reply was a valid tool call).
C2_AsStated ==
    C2_Exhausted =>
        /\ result = createResult(MaxIterationsError(maxIterations), metrics, TRUE)
        /\ metrics.iterations = maxIterations
        /\ (metrics.parseErrors = 0 => metrics.toolCalls = maxIterations)

\* C2: a run that passes entry validation, never receives a valid Completion,
\* never crosses the context limit and in which no service throws fails with
\* the max iterations error and reports iterations == max(maxIterations, 0);
\* when every reply was a valid tool call, toolCalls == max(maxIterations, 0).
C2_MaxIterations ==
    C2_Exhausted =>
        /\ result = createResult(MaxIterationsError(maxIterations), metrics, TRUE)
        /\ metrics.iterations = Max(maxIterations, 0)
        /\ (metrics.parseErrors = 0 => metrics.toolCalls = Max(maxIterations, 0))

\* a run that answered every turn with a tool call and ran out of iterations
C2_Witness ==
    /\ C2_Exhausted
    /\ maxIterations = 2
    /\ metrics.iterations = 2
    /\ metrics.toolCalls = 2
    /\ result.error = "Max iterations (2) exceeded."

-----------------------------------------------------------------------------
(* Completion *)

\* the response field of the completion the model sent, read off the raw text
\* that was appended to the conversation
ResponseFieldOf(content) ==
    Member((CHOOSE r \in LlmResponses : r.content = content).json, "response")[3]

\* C3: once the reply of iteration k is a valid Completion, the run makes no
\* further model call or tool execution (it only appends and returns), it
\* reports iterations == k, and it returns success with the completion's
\* response field.
C3_Completion ==
    (hist.completionAt > 0 /\ (pc = "idle" => Returned)) =>
        /\ pc \in {"addCompletion", "idle"}
        /\ metrics.iterations = hist.completionAt
        /\ hist.chats = hist.completionAt
        /\ hist.chatAt = hist.completionAt
        /\ hist.toolExecs = metrics.toolCalls
        /\ Returned =>
             /\ result.success
             /\ result.error = NONE
             /\ result.response = ResponseFieldOf(Last(Messages).content)

\* a run has returned a completion received in its second iteration
C3_Witness ==
    /\ Returned
    /\ hist.completionAt = 2
    /\ result.success
    /\ metrics.toolCalls = 1

-----------------------------------------------------------------------------
(* Entry validation *)

NamedInputError ==
    IF userInput \in BlankTexts THEN "User input cannot be empty"
    ELSE "System prompt cannot be empty"

C4_Rejected ==
    (Returned /\ ~ValidInputs) =>
        /\ result = createResult(NamedInputError, metrics, TRUE)
        /\ metrics = NewMetrics
        /\ hist.storeOps = 0
        /\ hist.chats = 0
        /\ hist.toolExecs = 0

\* the call of runAgent, seen as a step: a blank argument ends it there
C4_RejectedAtOnce ==
    (runs' = runs + 1 /\ (userInput' \in BlankTexts \/ systemPrompt' \in BlankTexts)) =>
        /\ pc' = "idle"
        /\ conversations' = conversations

\* C4: with an empty or whitespace-only userInput or systemPrompt, runAgent
\* returns the named failure with zero iterations, having made no conversation
\* store call, no model call and no tool execution; the conversations are
\* unchanged.
C4_EntryValidation == [] C4_Rejected /\ [][C4_RejectedAtOnce]_vars

\* a whitespace-only system prompt was rejected on an existing conversation
C4_Witness ==
    /\ Returned
    /\ userInput = "Say hello"
    /\ systemPrompt = "   \n  \t  "
    /\ result.error = "System prompt cannot be empty"
    /\ Len(Messages) > 0

-----------------------------------------------------------------------------
(* Seeding the conversation *)

IsSeed(message) == message.role = "system" /\ message.content \in SystemPrompts

C5_OneSeed ==
    \A id \in ConversationIds :
        LET messages == conversations[id].messages
        IN  Cardinality({k \in 1..Len(messages) : IsSeed(messages[k])}) <= 1

\* no step gives a conversation that exists a new first message
C5_FirstStays ==
    \A id \in ConversationIds :
        (/\ conversations[id].exists
         /\ conversations'[id].exists
         /\ conversations'[id].messages # <<>>) =>
            /\ conversations[id].messages # <<>>
            /\ Head(conversations'[id].messages) = Head(conversations[id].messages)

C6_SeedsWhenEmpty ==
    (hist.emptyAtStart /\ ValidInputs) =>
        /\ Returned => hist.enteredLoop
        /\ (pc = "loop" /\ i = 0) =>
              Messages = <<Message("system", systemPrompt),
                           Message("user", userInput)>>

-----------------------------------------------------------------------------
(* The context limit *)

\* the conversation as it stands exceeds maxTokens * 0.8
Exceeds ==
    ceilDiv(totalChars(Messages), 4) * 5 > maxTokens * 4

C7_CheckedFirst ==
    /\ hist.chatAt <= hist.checkedAt
    /\ pc \in {"getMessages", "chat"} =>
          /\ hist.checkedAt = metrics.iterations
          /\ hist.chatAt < metrics.iterations
          /\ ~Exceeds
    /\ (Returned /\ hist.exceededAt > 0) =>
          /\ Exceeds
          /\ hist.exceededAt = metrics.iterations
          /\ hist.chatAt < hist.exceededAt
          /\ hist.chats = metrics.iterations - 1
          /\ metrics.contextLimitReached
          /\ result = createResult(
                 "Context limit reached ("
                 \o ToString(ceilDiv(totalChars(Messages), 4)) \o " tokens).",
                 metrics, TRUE)

\* the check as a step, and the steps that follow it
C7_CheckStep ==
    /\ (pc = "estimate" /\ Exceeds) =>
          (pc' = "idle" /\ hist'.chats = hist.chats /\ metrics'.contextLimitReached)
    /\ (pc = "estimate" /\ ~Exceeds) => pc' = "getMessages"
    /\ pc = "getMessages" => pc' = "chat"
    /\ pc = "chat" => (hist'.chats = hist.chats + 1 /\ hist'.chatAt = metrics.iterations)

\* C7: in every iteration the estimate is checked before the model is called:
\* when it strictly exceeds maxTokens * contextLimitThreshold the run sets
\* contextLimitReached, fails with the context limit error and calls no model
\* in that iteration; when it does not, the model is called.
C7_ContextCheck == [] C7_CheckedFirst /\ [][C7_CheckStep]_vars

\* the limit was found exceeded in a second iteration, after one model call
C7_Witness ==
    /\ Returned
    /\ hist.exceededAt = 2
    /\ hist.chats = 1
    /\ metrics.contextLimitReached

C8_ContextFailure ==
    /\ Returned
    /\ hist.exceededAt > 0

\* C8 as stated: a run that crosses the context threshold fails with
\* contextLimitReached and iterations < maxIterations.
C8_AsStated ==
    C8_ContextFailure =>
        /\ ~result.success
        /\ metrics.contextLimitReached
        /\ metrics.iterations < maxIterations

\* C8: a run that crosses the context threshold fails with contextLimitReached
\* == true and 1 <= iterations <= maxIterations; iterations == maxIterations
\* when the threshold is found crossed by the check of the last iteration.
C8_ContextLimit ==
    C8_ContextFailure =>
        /\ ~result.success
        /\ metrics.contextLimitReached
        /\ metrics.iterations >= 1
        /\ metrics.iterations <= maxIterations

\* the threshold was crossed with iterations to spare
C8_Witness ==
    /\ C8_ContextFailure
    /\ metrics.contextLimitReached
    /\ metrics.iterations = 1
    /\ maxIterations = 2

-----------------------------------------------------------------------------
(* Recoverable errors *)

MalformedContents ==
    {"invalid json",
     "{\"tool\": \"invalid_tool_name\"}",
     "{\"done\": true, \"response\": \"x\", \"tool\": \"echo\", \"args\": {}}"}

ToolCallContents ==
    {"{\"tool\": \"echo\", \"args\": {\"message\": \"test\"}}",
     "{\"tool\": \"echo\", \"args\": {}}",
     "{\"tool\": \"fail_tool\", \"args\": {}}",
     "{\"tool\": \"error_tool\", \"args\": {}}",
     "{\"tool\": \"nonexistent_tool\", \"args\": {}}"}

Appended(message) ==
    conversations' = [conversations EXCEPT
                         ![conversationId].messages = Append(@, message)]

C9_Counted ==
    (pc = "chat" /\ llmResult' \in MalformedContents) =>
        /\ pc' = "addErrorMessage"
        /\ metrics' = [metrics EXCEPT !.parseErrors = @ + 1]
        /\ pendingMessage'.role = "system"
        /\ conversations' = conversations
        /\ result' = result

C9_FedBack ==
    pc = "addErrorMessage" =>
        /\ pc' = "loop"
        /\ i' = i + 1
        /\ Appended(pendingMessage)
        /\ pendingMessage.role = "system"
        /\ metrics' = metrics
        /\ result' = result

\* C9: a malformed model turn (not JSON, or JSON of neither shape) does not end
\* the run: parseErrors goes up by exactly one and nothing else is counted,
\* exactly one system message is appended, and control is back at the head of
\* the loop.
C9_MalformedTurn == [][C9_Counted /\ C9_FedBack]_vars

\* after a malformed first turn the run is in its second iteration
C9_Witness ==
    /\ pc = "chat"
    /\ metrics.iterations = 2
    /\ metrics.parseErrors = 1
    /\ Len(Messages) = 3
    /\ Last(Messages).role = "system"

C10_Counted ==
    (pc = "chat" /\ llmResult' \in ToolCallContents) =>
        /\ pc' = "toolExecute"
        /\ metrics' = [metrics EXCEPT !.toolCalls = @ + 1]
        /\ result' = result

C10_Executed ==
    pc = "toolExecute" =>
        /\ pc' = "addToolResult"
        /\ toolResult'.success =
              (validated.tool = "echo" /\ validated.args = "{\"message\":\"test\"}")
        /\ metrics' = [metrics EXCEPT !.toolFailures =
                                         IF toolResult'.success THEN @ ELSE @ + 1]
        /\ result' = result

C10_Continues ==
    pc = "addToolResult" =>
        /\ pc' = "loop"
        /\ i' = i + 1
        /\ Appended(pendingMessage)
        /\ metrics' = metrics
        /\ result' = result

\* C10: an unsuccessful tool result (unknown tool, invalid arguments, a tool
\* that throws, a tool that returns a failure) does not end the run: toolCalls
\* goes up by one for every validated tool call, toolFailures by one exactly
\* when the result has success == false, and control is back at the head of
\* the loop.
C10_ToolFailure == [][C10_Counted /\ C10_Executed /\ C10_Continues]_vars

\* after a failed tool call the run is in its second iteration
C10_Witness ==
    /\ pc = "chat"
    /\ metrics.iterations = 2
    /\ metrics.toolCalls = 1
    /\ metrics.toolFailures = 1

-----------------------------------------------------------------------------
(* The tool result fed back to the model *)

\* the {tool_result: ...} envelope the conversation must hold after the tool
\* call the model asked for in `content`
C11_Envelope(content) ==
    CASE content = "{\"tool\": \"echo\", \"args\": {\"message\": \"test\"}}" ->
           "{\"tool_result\":{\"success\":true,\"data\":\"test\"}}"
      [] content = "{\"tool\": \"echo\", \"args\": {}}" ->
           "{\"tool_result\":{\"success\":false,\"error\":\"Invalid arguments for tool 'echo': {\\\"message\\\":[\\\"Invalid input: expected string, received undefined\\\"]}\"}}"
      [] content = "{\"tool\": \"fail_tool\", \"args\": {}}" ->
           "{\"tool_result\":{\"success\":false,\"error\":\"Tool failed\"}}"
      [] content = "{\"tool\": \"error_tool\", \"args\": {}}" ->
           "{\"tool_result\":{\"success\":false,\"error\":\"Tool 'error_tool' failed: Tool execution failed\"}}"
      [] OTHER ->
           "{\"tool_result\":{\"success\":false,\"error\":\"Tool 'nonexistent_tool' not found\"}}"

\* every validated tool call has been executed once, but for the one in flight
C11_Once ==
    hist.toolExecs = metrics.toolCalls - (IF pc = "toolExecute" THEN 1 ELSE 0)

\* the execution: one registry call, nothing appended, no model call
C11_Executes ==
    pc = "toolExecute" =>
        /\ llmResult \in ToolCallContents
        /\ pc' = "addToolResult"
        /\ hist'.toolExecs = hist.toolExecs + 1
        /\ hist'.chats = hist.chats
        /\ conversations' = conversations
        /\ toolResult' = registryExecute(validated.tool, validated.args).value
        /\ pendingMessage' = Message("assistant", C11_Envelope(llmResult))

\* the append: one assistant message, the envelope of the result the execution
\* returned, and only then the next pass of the loop
C11_Appends ==
    pc = "addToolResult" =>
        /\ Appended(Message("assistant", C11_Envelope(llmResult)))
        /\ pendingMessage = Message("assistant", C11_Envelope(llmResult))
        /\ hist'.toolExecs = hist.toolExecs
        /\ hist'.chats = hist.chats
        /\ pc' = "loop"

\* C11: for every validated tool call the registry is executed exactly once
\* and exactly one assistant message is appended, whose content is the
\* serialized {tool_result: ToolResult} envelope of the result that execution
\* returned; the append comes after the execution and before the next model
\* call.
C11_ToolResultAppended ==
    /\ [] C11_Once
    /\ [][C11_Executes /\ C11_Appends]_vars

\* the second model call of a run is about to see the envelope of a
\* successful echo
C11_Witness ==
    /\ pc = "chat"
    /\ metrics.iterations = 2
    /\ hist.toolExecs = 1
    /\ Len(Messages) = 3
    /\ Last(Messages) =
          Message("assistant", "{\"tool_result\":{\"success\":true,\"data\":\"test\"}}")

-----------------------------------------------------------------------------
(* The completion in the conversation log *)

\* a successful run has left the model's raw reply as the last message
C12_RawLogged ==
    (Returned /\ result.success) =>
        /\ Last(Messages).role = "assistant"
        /\ Last(Messages).content \in LlmContents
        /\ Last(Messages).content # result.response
        /\ ResponseFieldOf(Last(Messages).content) = result.response

\* success is returned by the step that appends the raw reply, and by no other
C12_AppendThenReturn ==
    /\ pc = "addCompletion" =>
          /\ llmResult \in LlmContents
          /\ Appended(Message("assistant", llmResult))
          /\ pc' = "idle"
          /\ result'.success
    /\ (result'.success /\ result' # result) => pc = "addCompletion"

\* C12: on a Completion the assistant message appended to the conversation
\* holds the raw model content exactly as the model returned it, not the
\* extracted response text, and it is appended before runAgent returns success.
C12_RawCompletion == [] C12_RawLogged /\ [][C12_AppendThenReturn]_vars

\* a run has answered in its first iteration and logged the raw JSON reply
C12_Witness ==
    /\ Returned
    /\ result.success
    /\ metrics.iterations = 1
    /\ result.response = "Hello, I can help you!"
    /\ Last(Messages) =
          Message("assistant",
                  "{\"done\": true, \"response\": \"Hello, I can help you!\"}")

-----------------------------------------------------------------------------
(* Exceptions of the services *)

\* what the model service and the conversation store throw
C13_Underlying ==
    IF pc = "chat" THEN "LLM request failed: Network error"
    ELSE IF pc = "ensureCreate" THEN "Conversation c1 already exists"
    ELSE "Conversation c1 not found"

\* once a service has thrown the run is over and has failed with an agent error
C13_Aborted ==
    hist.threw =>
        /\ pc = "idle"
        /\ ~result.success
        /\ result.response = NONE
        /\ result.error \in {"Agent error: LLM request failed: Network error",
                             "Agent error: Conversation c1 already exists",
                             "Agent error: Conversation c1 not found"}

\* the step in which the service throws is the step in which runAgent returns
C13_AbortStep ==
    (hist'.threw /\ ~hist.threw /\ runs' = runs) =>
        /\ pc' = "idle"
        /\ result' = [success |-> FALSE, response |-> NONE, metrics |-> metrics,
                      error |-> "Agent error: " \o C13_Underlying]
        /\ conversations' = conversations
        /\ metrics' = metrics
        /\ hist'.toolExecs = hist.toolExecs

\* after the throw the run calls no service again
C13_NoRetry ==
    (hist.threw /\ runs' = runs) =>
        /\ hist'.threw
        /\ hist'.chats = hist.chats
        /\ hist'.toolExecs = hist.toolExecs
        /\ hist'.storeOps = hist.storeOps
        /\ result' = result
        /\ metrics' = metrics

\* C13: if the model service or the conversation store throws at any point of
\* a run, the run is aborted there and not retried: no further model call,
\* tool execution or conversation append, and runAgent returns success = false
\* with the error 'Agent error: <underlying message>'.
C13_ServiceThrows ==
    /\ [] C13_Aborted
    /\ [][C13_AbortStep /\ C13_NoRetry]_vars

\* the model service threw in the second iteration, after a tool call
C13_Witness ==
    /\ Returned
    /\ hist.threw
    /\ metrics.iterations = 2
    /\ hist.chats = 2
    /\ hist.toolExecs = 1
    /\ result.error = "Agent error: LLM request failed: Network error"

-----------------------------------------------------------------------------
(* What the caller receives *)

\* the invocation ended by a throw of llm.chat
C14_ChatThrew ==
    hist.threw /\ result.error = "Agent error: LLM request failed: Network error"

\* what the run has done, counted from outside the metrics object
C14_Tally ==
    /\ result.metrics.iterations =
          hist.chats + (IF hist.exceededAt > 0 THEN 1 ELSE 0)
    /\ result.metrics.toolCalls = hist.toolExecs
    /\ result.metrics.parseErrors + result.metrics.toolCalls
          + (IF hist.completionAt > 0 THEN 1 ELSE 0)
          + (IF C14_ChatThrew THEN 1 ELSE 0) = hist.chats
    /\ result.metrics.toolFailures <= result.metrics.toolCalls
    /\ result.metrics.contextLimitReached = (hist.exceededAt > 0)

\* every finished invocation has handed back a well-formed AgentResult whose
\* metrics are the run's own counters
C14_Result ==
    (pc = "idle" /\ runs > 0) =>
        /\ result.success \in BOOLEAN
        /\ result.success => (result.response # NONE /\ result.error = NONE)
        /\ ~result.success => (result.error # NONE /\ result.response = NONE)
        /\ result.metrics = metrics
        /\ C14_Tally

\* an invocation ends in no other way than by returning: a step either keeps
\* the run going or hands back the result, throwing service or not
C14_EndsByReturn ==
    (pc # "idle" \/ runs' # runs) =>
        \/ pc' # "idle" /\ result' = NoResult
        \/ pc' = "idle" /\ hist'.returned /\ result'.metrics = metrics'
                        /\ (hist'.threw => ~result'.success)

\* C14: runAgent never raises to its caller: for every input and every
\* behaviour of the services, a throw at a service call included, it returns
\* an AgentResult that carries the metrics object with the counters
\* accumulated up to the point of return.
C14_AlwaysResult == [] C14_Result /\ [][C14_EndsByReturn]_vars

\* the model service threw in the second iteration, after a malformed reply;
\* the caller holds a failure carrying the two iterations and the parse error
C14_Witness ==
    /\ Returned
    /\ C14_ChatThrew
    /\ result.metrics.iterations = 2
    /\ result.metrics.parseErrors = 1
    /\ result.metrics.toolCalls = 0

-----------------------------------------------------------------------------
(* The context sent to the model *)

\* what llm.chat is about to be called with is the whole conversation, oldest
\* message first: in a conversation that was empty when the run began, the
\* seed, the user input, and one message for each earlier iteration
C15_FullHistory ==
    pc = "chat" =>
        /\ currentMessages = Messages
        /\ Len(currentMessages) >= metrics.iterations + 1
        /\ currentMessages[Len(currentMessages) - metrics.iterations + 1] =
              Message("user", userInput)
        /\ \A k \in (Len(currentMessages) - metrics.iterations + 2)
                      .. Len(currentMessages) :
              currentMessages[k].role \in {"system", "assistant"}
        /\ hist.emptyAtStart =>
              /\ Len(currentMessages) = metrics.iterations + 1
              /\ currentMessages[1] = Message("system", systemPrompt)

\* a run only ever appends to the conversation, one message at a time
C15_AppendOnly ==
    pc # "idle" =>
        LET before == conversations[conversationId].messages
            after == conversations'[conversationId].messages
        IN  \/ after = before
            \/ /\ Len(after) = Len(before) + 1
               /\ SubSeq(after, 1, Len(before)) = before

\* the model call itself leaves the conversation as the model was shown it
C15_ChatStep ==
    (pc = "chat" /\ pc' # "chat") =>
        /\ hist'.chats = hist.chats + 1
        /\ conversations' = conversations

-----------------------------------------------------------------------------
(* The metrics of a run *)

C16_Counters == {"iterations", "toolCalls", "parseErrors", "toolFailures"}

\* within an invocation a counter stays or goes up by one, and the context
\* limit flag, once set, stays set
C16_Monotonic ==
    runs' = runs =>
        /\ \A c \in C16_Counters : metrics'[c] \in {metrics[c], metrics[c] + 1}
        /\ metrics.contextLimitReached => metrics'.contextLimitReached

\* an invocation counts from zero, whatever the one before it had counted,
\* and between invocations nothing counts
C16_OwnObject ==
    /\ runs' # runs =>
          /\ \A c \in C16_Counters : metrics'[c] = 0
          /\ ~metrics'.contextLimitReached
    /\ (pc = "idle" /\ runs' = runs) => metrics' = metrics

\* C16: in every run each metrics counter (iterations, toolCalls, parseErrors,
\* toolFailures) only ever increases, by exactly one per step, and
\* contextLimitReached only ever changes from false to true; two runs never
\* share a metrics object, so one run's counters are unaffected by another run.
C16_Metrics == [][C16_Monotonic /\ C16_OwnObject]_vars

\* a second invocation is in its first iteration, with one iteration counted,
\* after a first invocation that had called the model
C16_Witness ==
    /\ runs = 2
    /\ pc = "chat"
    /\ totalChats = 1
    /\ metrics = [iterations |-> 1, toolCalls |-> 0, parseErrors |-> 0,
                  toolFailures |-> 0, contextLimitReached |-> FALSE]

-----------------------------------------------------------------------------
(* The tool registry *)

\* every call the registry can dispatch for the name gives what it gave before
C17_SameDispatch(name) ==
    \A args \in ArgsChoices :
        registryExecute(name, args)' = registryExecute(name, args)

C17_Rejected ==
    \A tool \in ToolPool :
        (registered(tool.name) /\ Register(tool)) =>
            /\ thrown' = "Tool '" \o tool.name \o "' is already registered"
            /\ tools' = tools
            /\ list' = list
            /\ C17_SameDispatch(tool.name)

\* C17: registering a tool under a name that is already registered fails with
\* a 'tool already registered' error and leaves the registry unchanged: the
\* first registration is still the one that list() reports and that execute
\* dispatches to.
C17_DuplicateRegistration == [][C17_Rejected]_vars

\* a second registration under the name echo has just been refused, the
\* registry holding the second echo tool and one more
C17_Witness ==
    /\ thrown = "Tool 'echo' is already registered"
    /\ tools = <<shoutTool, failTool>>

C18_NotFound ==
    \A name \in ToolNames, args \in ArgsChoices :
        (~registered(name) /\ Execute(name, args)) =>
            /\ toolResult' = [success |-> FALSE, data |-> NONE,
                              error |-> "Tool '" \o name \o "' not found"]
            /\ thrown' = NONE
            /\ invoked' = <<>>
            /\ tools' = tools

\* C18: executing a tool call whose name is not registered returns
\* {success: false, error: "Tool '<name>' not found"} without throwing,
\* without invoking any tool and without changing the registry.
C18_UnknownTool == [][C18_NotFound]_vars

\* a registry with three tools has answered a call for a fourth name
C18_Witness ==
    /\ Len(tools) = 3
    /\ thrown = NONE
    /\ invoked = <<>>
    /\ toolResult = [success |-> FALSE, data |-> NONE,
                     error |-> "Tool 'non_existent' not found"]

\* the args carry the message key the echo tools ask for
C19_HasMessage(args) ==
    args \in {"{\"message\":\"test\"}", "{\"message\":\"test\",\"extra\":1}"}

C19_Checked ==
    \A name \in ToolNames, args \in ArgsChoices :
        (registered(name) /\ Execute(name, args)) =>
            IF lookup(name).name = "echo" /\ ~C19_HasMessage(args)
            THEN /\ invoked' = <<>>
                 /\ thrown' = NONE
                 /\ toolResult' =
                       [success |-> FALSE, data |-> NONE,
                        error |-> "Invalid arguments for tool 'echo': {\"message\":[\"Invalid input: expected string, received undefined\"]}"]
            ELSE invoked' =
                    <<[tool |-> lookup(name),
                       args |-> IF lookup(name).name = "echo"
                                THEN "{\"message\":\"test\"}" ELSE "{}"]>>

\* C19: when a registered tool is called with arguments that fail its
\* argument schema the registry returns a failed result ('Invalid arguments
\* ...') and the tool's execute function is not invoked; execute is invoked
\* only after the schema check has succeeded, and with the validated
\* arguments.
C19_ArgumentCheck == [][C19_Checked]_vars

\* the echo tool was called with the wrong key and was not run
C19_Witness ==
    /\ registered("echo")
    /\ invoked = <<>>
    /\ toolResult.error =
          "Invalid arguments for tool 'echo': {\"message\":[\"Invalid input: expected string, received undefined\"]}"

C20_Caught ==
    \A name \in ToolNames, args \in ArgsChoices :
        Execute(name, args) =>
            /\ thrown' = NONE
            /\ (registered(name) /\ lookup(name) = errorTool) =>
                  /\ invoked' = <<[tool |-> errorTool, args |-> "{}"]>>
                  /\ toolResult' =
                        [success |-> FALSE, data |-> NONE,
                         error |-> "Tool 'error_tool' failed: Tool execution failed"]

\* C20: the registry's execute never throws: any exception raised by a tool's
\* execute function is caught and returned as
\* {success: false, error: "Tool '<name>' failed: <message>"}.
C20_NeverThrows == [][C20_Caught]_vars

\* the tool that throws was run and its exception came back as a result
C20_Witness ==
    /\ thrown = NONE
    /\ Len(invoked) = 1
    /\ invoked[1].tool = errorTool
    /\ toolResult.error = "Tool 'error_tool' failed: Tool execution failed"

-----------------------------------------------------------------------------
(* The shape of a ToolResult *)

C21_ErrorIffFailed(r) == (r.error # NONE) <=> ~r.success

\* C21 as stated: every ToolResult returned by the registry's execute has an
\* error text if and only if its success field is false.
C21_AsStated ==
    [][\A name \in ToolNames, args \in ArgsChoices :
          Execute(name, args) => C21_ErrorIffFailed(toolResult')]_vars

C21_BuiltOrPassedOn ==
    \A name \in ToolNames, args \in ArgsChoices :
        Execute(name, args) =>
            IF invoked' = <<>> \/ invoked'[1].tool.execute = "throws"
            THEN ~toolResult'.success /\ toolResult'.error # NONE
            ELSE toolResult' =
                    toolExecute(invoked'[1].tool, invoked'[1].args).value

\* C21: a ToolResult that the registry builds itself (unknown tool, invalid
\* arguments, a caught exception) has success false and an error text; the
\* result of a tool's execute is returned unchanged, so it has an error text
\* if and only if its success field is false only when the tool made it so.
C21_ToolResultShape == [][C21_BuiltOrPassedOn]_vars

\* the registry has passed on a failure that carries no error text
C21_Witness ==
    /\ Len(invoked) = 1
    /\ invoked[1].tool = quietTool
    /\ toolResult = [success |-> FALSE, data |-> NONE, error |-> NONE]

-----------------------------------------------------------------------------
(* What list() reports *)

C22_Metadata(tool) ==
    [name |-> tool.name, description |-> tool.description,
     parameters |-> tool.parameters]

\* one entry per registered tool, each name once
C22_OnePerTool ==
    /\ Len(list) = Cardinality({tool.name : tool \in ToolPool} \cap
                               {name \in ToolNames : registered(name)})
    /\ \A j, k \in 1..Len(list) : list[j].name = list[k].name => j = k

\* a register that succeeds adds its tool's metadata at the end of the list;
\* a register that is rejected, and an execute, leave the list as it is
C22_Order ==
    /\ \A tool \in ToolPool :
          Register(tool) =>
              list' = IF registered(tool.name) THEN list
                      ELSE Append(list, C22_Metadata(tool))
    /\ \A name \in ToolNames, args \in ArgsChoices :
          Execute(name, args) => list' = list

\* C22: list() returns one metadata entry per registered tool, in registration
\* order, after any sequence of successful and rejected register calls and any
\* number of execute calls (execute never changes what list() returns).
C22_ListOrder == [] C22_OnePerTool /\ [][C22_Order]_vars

\* three tools registered, the echo tool last, a fourth registration refused,
\* and the list shows them as they came
C22_Witness ==
    /\ thrown = "Tool 'echo' is already registered"
    /\ list = <<C22_Metadata(failTool), C22_Metadata(errorTool),
                C22_Metadata(echoTool)>>

-----------------------------------------------------------------------------
(* What the validator accepts *)

C23_Has(json, key, type) ==
    \E m \in json.members : m[1] = key /\ m[2] = type

\* an object with exactly the keys done and response, done being true and
\* response a string
C23_IsCompletion(json) ==
    /\ json.type = "object"
    /\ Cardinality(json.members) = 2
    /\ <<"done", "boolean", "true">> \in json.members
    /\ C23_Has(json, "response", "string")

\* an object with exactly the keys tool and args, a string and an object
C23_IsToolCall(json) ==
    /\ json.type = "object"
    /\ Cardinality(json.members) = 2
    /\ C23_Has(json, "tool", "string")
    /\ C23_Has(json, "args", "object")

\* C23: the response validator accepts a JSON value if and only if it is an
\* object whose keys are exactly {done, response} with done === true and a
\* string response (a Completion), or whose keys are exactly {tool, args} with
\* a string tool and an object args (a ToolCall); it never accepts a payload
\* that has both done and tool, a done other than true, or an unknown field.
C23_Validator ==
    stage = "validated" =>
        /\ verdict.success <=> (C23_IsCompletion(parsed) \/ C23_IsToolCall(parsed))
        /\ verdict.success =>
              verdict.data.kind = (IF C23_IsCompletion(parsed) THEN "done" ELSE "tool")
        /\ ({"done", "tool"} \subseteq Keys(parsed)) => ~verdict.success
        /\ ("done" \in Keys(parsed)
               /\ <<"done", "boolean", "true">> \notin parsed.members)
              => ~verdict.success
        /\ ("extra" \in Keys(parsed)) => ~verdict.success

\* a payload that has both shapes at once has been refused
C23_Witness ==
    /\ stage = "validated"
    /\ ~verdict.success
    /\ parsed = JsonObject({<<"done", "boolean", "true">>,
                            <<"response", "string", "Complete">>,
                            <<"tool", "string", "file_read">>,
                            <<"args", "object", "{}">>})

-----------------------------------------------------------------------------
(* From the text of a tool call to the ToolCall *)

\* the tool name and the args written in a tool call text
C24_Written(content) ==
    CASE content = "{\"tool\": \"echo\", \"args\": {\"message\": \"test\"}}" ->
           <<"echo", "{\"message\":\"test\"}">>
      [] content = "{\"tool\": \"echo\", \"args\": {}}" -> <<"echo", "{}">>
      [] content = "{\"tool\": \"fail_tool\", \"args\": {}}" -> <<"fail_tool", "{}">>
      [] content = "{\"tool\": \"error_tool\", \"args\": {}}" -> <<"error_tool", "{}">>
      [] content = "{\"tool\": \"nonexistent_tool\", \"args\": {}}" ->
           <<"nonexistent_tool", "{}">>
      [] content = "{\"tool\": \"test\", \"args\": {}}" -> <<"test", "{}">>
      [] content = "{ \"tool\": \"file_read\", \"args\": { \"path\": \"test.txt\" } }" ->
           <<"file_read", "{\"path\":\"test.txt\"}">>
      [] content = "{\"tool\": \"complex_tool\", \"args\": {\"nested\": {\"value\": 123}, \"array\": [1, 2, 3]}}" ->
           <<"complex_tool", "{\"nested\":{\"value\":123},\"array\":[1,2,3]}">>
      [] content = "{\"tool\": \" Echo \", \"args\": {\"done\": true, \"tool\": 1}}" ->
           <<" Echo ", "{\"done\":true,\"tool\":1}">>
      [] OTHER -> <<>>

\* the text is one of the valid tool calls, with nothing around it
C24_BareToolCall ==
    Len(rawResponse) = 1 /\ C24_Written(rawResponse[1]) # <<>>

\* C24: for every valid tool-call JSON text without fences, parsing and then
\* validating it yields a ToolCall whose tool name and args are exactly those
\* in the text: nothing is dropped, renamed or coerced.
C24_ToolCallRoundTrip ==
    C24_BareToolCall =>
        /\ stage \in {"raw", "stripped", "parsed", "validated"}
        /\ stage = "validated" =>
              /\ verdict.success
              /\ verdict.data.kind = "tool"
              /\ verdict.data.tool = C24_Written(rawResponse[1])[1]
              /\ verdict.data.args = C24_Written(rawResponse[1])[2]

\* a tool call whose name has spaces and a capital and whose args use the
\* keys of the protocol itself has come through as written
C24_Witness ==
    /\ stage = "validated"
    /\ rawResponse = <<"{\"tool\": \" Echo \", \"args\": {\"done\": true, \"tool\": 1}}">>
    /\ verdict.data.tool = " Echo "
    /\ verdict.data.args = "{\"done\":true,\"tool\":1}"

-----------------------------------------------------------------------------
(* Stripping the fences *)

\* three backticks in a row somewhere in the text
C25_HasFence(text) ==
    \E k \in 1..(Len(text) - 2) : SubSeq(text, k, k + 2) = Fence

\* C25: markdown stripping is idempotent: for every completion JSON wrapped
\* in arbitrary whitespace and zero to two levels of fence markers,
\* stripMarkdown(stripMarkdown(x)) equals stripMarkdown(x), and the stripped
\* text contains no triple-backtick fence marker.
C25_StripIdempotent ==
    stage # "raw" =>
        /\ stripMarkdown(stripped) = stripped
        /\ ~C25_HasFence(stripped)
        /\ stripped = stripMarkdown(rawResponse)

\* a completion inside two fences, the outer one marked json, with white
\* space at the joints, has been stripped down to the JSON
C25_Witness ==
    /\ stage = "stripped"
    /\ rawResponse =
          <<" ">> \o FenceJson \o <<"\n">> \o Fence \o <<"\n",
            "{\"done\": true, \"response\": \"Hello, I can help you!\"}", "\n">>
          \o Fence \o <<"\n">> \o Fence \o <<"\n">>
    /\ stripped = <<"{\"done\": true, \"response\": \"Hello, I can help you!\"}">>

-----------------------------------------------------------------------------
(* The conversation store: what getAll returns *)

\* caller c calls getAll in this step: the repository is read here
C26_Reads(c) ==
    /\ inflight[c].at = "done"
    /\ inflight'[c].op = "getAll"
    /\ inflight'[c].at = "awaiting"

\* caller c is handed the result of its getAll in this step
C26_Returns(c) ==
    /\ inflight[c].op = "getAll"
    /\ inflight[c].at = "awaiting"
    /\ inflight'[c].at = "done"

-----------------------------------------------------------------------------
(* The conversation store: add *)

C27_ValidShape(message) ==
    /\ \/ message.role = "system"
       \/ message.role = "user"
       \/ message.role = "assistant"
    /\ message.content # NONE

\* caller c calls add in this step
C27_Calls(c) ==
    /\ inflight[c].at = "done"
    /\ inflight'[c].op = "add"
    /\ inflight'[c] # inflight[c]

\* the add of caller c ends in this step
C27_Ends(c) ==
    /\ inflight[c].op = "add"
    /\ inflight[c].at = "awaiting"
    /\ inflight'[c].at = "done"

C27_Appended(c) ==
    /\ inflight'[c].thrown = NONE
    /\ conversations[bound[c]].exists
    /\ conversations' = [conversations EXCEPT ![bound[c]].messages =
                             Append(@, inflight[c].message)]

C27_Failed(c) ==
    /\ inflight'[c].thrown # NONE
    /\ conversations' = conversations

\* C27: add either appends exactly the given message at the end of the
\* conversation or fails and leaves the store unchanged; it fails when the
\* conversation does not exist, creating none, and when the message does not
\* have a valid role/content shape, which is checked before anything is stored.
C27_Add ==
    [][\A c \in Callers :
        /\ C27_Calls(c) =>
              /\ conversations' = conversations
              /\ ~C27_ValidShape(inflight'[c].message) =>
                    /\ inflight'[c].at = "done"
                    /\ inflight'[c].thrown # NONE
              /\ C27_ValidShape(inflight'[c].message) => inflight'[c].at = "awaiting"
        /\ C27_Ends(c) =>
              /\ C27_Appended(c) \/ C27_Failed(c)
              /\ C27_ValidShape(inflight[c].message)
              /\ ~inflight[c].existed \/ ~conversations[bound[c]].exists =>
                    /\ inflight'[c].thrown = ConversationNotFoundError(bound[c])
                    /\ conversations' = conversations]_vars

\* one add has appended its message behind another, one was turned down for
\* its shape and nothing of it is stored
C27_Witness ==
    /\ inflight[1].op = "add"
    /\ inflight[1].at = "done"
    /\ inflight[1].thrown = NONE
    /\ inflight[1].message = Message("assistant", "Hi there!")
    /\ conversations["c1"].messages
          = <<Message("user", "Hello"), Message("assistant", "Hi there!")>>
    /\ inflight[2].op = "add"
    /\ inflight[2].message = Message("invalid", "test")
    /\ inflight[2].thrown = "ZodError"
    /\ bound[2] = "c1"

-----------------------------------------------------------------------------
(* The conversation store: create *)

\* the create of caller c ends in this step
C28_Ends(c) ==
    /\ inflight[c].op = "create"
    /\ inflight[c].at = "awaiting"
    /\ inflight'[c].at = "done"

\* caller c has made a create call, at a moment when its conversation was
\* absent, and the call has ended
C28_CreatedAbsent(c) ==
    /\ inflight[c].op = "create"
    /\ inflight[c].at = "done"
    /\ ~inflight[c].existed

\* C28: create fails with an already-exists error whenever a conversation with
\* the same id exists, leaving that conversation's messages unchanged; of two
\* create calls for the same absent id, however their steps interleave, exactly
\* one succeeds and the other fails.
C28_Create ==
    /\ [][\A c \in Callers :
            C28_Ends(c) /\ conversations[bound[c]].exists =>
                /\ inflight'[c].thrown = ConversationAlreadyExistsError(bound[c])
                /\ conversations' = conversations]_vars
    /\ [](C28_CreatedAbsent(1) /\ C28_CreatedAbsent(2) /\ bound[1] = bound[2] =>
            /\ (inflight[1].thrown = NONE) # (inflight[2].thrown = NONE)
            /\ \E c \in Callers :
                  inflight[c].thrown = ConversationAlreadyExistsError(bound[c]))

\* two creates were in flight for the same absent id: the first one to resume
\* has made the conversation, the second has been turned down
C28_Witness ==
    /\ C28_CreatedAbsent(1)
    /\ C28_CreatedAbsent(2)
    /\ bound[1] = bound[2]
    /\ inflight[2].thrown = NONE
    /\ inflight[1].thrown = ConversationAlreadyExistsError("c1")
    /\ conversations["c1"].exists

-----------------------------------------------------------------------------
(* The conversation store: estimateTokens *)

\* the sum of the content lengths of the messages
C29_Chars(messages) ==
    LET sum[k \in 0..Len(messages)] ==
            IF k = 0 THEN 0 ELSE sum[k - 1] + Len(messages[k].content)
    IN  sum[Len(messages)]

\* t is the least whole number with 4 t >= chars
C29_IsCeilOfQuarter(t, chars) ==
    /\ t \in Nat
    /\ 4 * t >= chars
    /\ 4 * (t - 1) < chars

\* caller c calls estimateTokens in this step: the messages are read here
C29_Calls(c) ==
    /\ inflight[c].at = "done"
    /\ inflight'[c].op = "estimateTokens"
    /\ inflight'[c].at = "awaiting"

\* caller c is handed the estimate in this step
C29_Returns(c) ==
    /\ inflight[c].op = "estimateTokens"
    /\ inflight[c].at = "awaiting"
    /\ inflight'[c].at = "done"

\* C29: estimateTokens returns ceil(c / 4), where c is the sum of the content
\* lengths of all messages in the conversation when it is called, and 0 for an
\* empty or absent conversation; it does not change the conversation.
C29_EstimateTokens ==
    [][\A c \in Callers :
        /\ C29_Calls(c) =>
              /\ conversations' = conversations
              /\ inflight'[c].messages
                    = (IF conversations[bound[c]].exists
                       THEN conversations[bound[c]].messages ELSE <<>>)
        /\ C29_Returns(c) =>
              /\ conversations' = conversations
              /\ inflight'[c].thrown = NONE
              /\ C29_IsCeilOfQuarter(inflight'[c].tokens,
                                     C29_Chars(inflight[c].messages))
              /\ inflight[c].messages = <<>> => inflight'[c].tokens = 0]_vars

\* 14 characters have been estimated at 4 tokens, an absent conversation at 0
C29_Witness ==
    /\ inflight[1].op = "estimateTokens"
    /\ inflight[1].at = "done"
    /\ inflight[1].tokens = 4
    /\ conversations["c1"].messages
          = <<Message("user", "Hello"), Message("assistant", "Hi there!")>>
    /\ inflight[2].op = "estimateTokens"
    /\ inflight[2].at = "done"
    /\ inflight[2].tokens = 0
    /\ bound[2] = "c2"
    /\ ~conversations["c2"].exists

-----------------------------------------------------------------------------
(* The conversation store: one conversation id does not see another *)

\* this step is a step of caller c
C30_StepOf(c) == inflight'[c] # inflight[c]

\* what is stored under the id, as a reader is given it
C30_Stored(id) ==
    IF conversations[id].exists THEN conversations[id].messages ELSE <<>>

\* every conversation but the one the caller is bound to is left as it was
C30_OthersUntouched(c) ==
    \A id \in StoreIds \ {bound[c]} : conversations'[id] = conversations[id]

\* what a call reads is what is stored under the caller's own id
C30_ReadsOwn(c) ==
    inflight'[c].at = "awaiting" =>
        /\ inflight'[c].existed = conversations[bound[c]].exists
        /\ inflight'[c].messages = C30_Stored(bound[c])

\* whether a call that writes succeeds is settled by the caller's own
\* conversation, and what it returns is what it read
C30_DecidedByOwn(c) ==
    inflight[c].at = "awaiting" =>
        /\ inflight[c].op = "create" =>
              (inflight'[c].thrown = NONE
                 <=> ~inflight[c].existed /\ ~conversations[bound[c]].exists)
        /\ inflight[c].op \in {"add", "clear"} =>
              (inflight'[c].thrown = NONE
                 <=> inflight[c].existed /\ conversations[bound[c]].exists)
        /\ inflight[c].op = "getAll" =>
              inflight'[c].messages = inflight[c].messages
        /\ inflight[c].op = "estimateTokens" =>
              C29_IsCeilOfQuarter(inflight'[c].tokens,
                                  C29_Chars(inflight[c].messages))

\* C30: store operations addressed to one conversation id, and so the runs
\* that make them, never read or change the messages stored under a different
\* id, however the operations of two callers with distinct ids interleave.
C30_Isolation ==
    [][\A c \in Callers :
        C30_StepOf(c) =>
            /\ C30_OthersUntouched(c)
            /\ C30_ReadsOwn(c)
            /\ C30_DecidedByOwn(c)]_vars

\* two callers with distinct ids, their calls interleaved: each conversation
\* holds what its own caller added and each getAll has read its own
C30_Witness ==
    /\ bound[1] = "c1"
    /\ bound[2] = "c2"
    /\ conversations["c1"].messages = <<Message("user", "Hello")>>
    /\ conversations["c2"].messages = <<Message("assistant", "Hi there!")>>
    /\ inflight[1].op = "getAll"
    /\ inflight[1].at = "done"
    /\ inflight[1].messages = <<Message("user", "Hello")>>
    /\ inflight[2].op = "getAll"
    /\ inflight[2].at = "awaiting"
    /\ inflight[2].messages = <<Message("assistant", "Hi there!")>>

-----------------------------------------------------------------------------
(* What the two loop failures report *)

\* the run has returned because its context limit check found the limit exceeded
C31_ContextLimitFailure == Returned /\ hist.exceededAt > 0

\* the run has returned because the loop ran out of iterations
C31_MaxIterationsFailure ==
    /\ Returned
    /\ hist.enteredLoop
    /\ ~hist.threw
    /\ hist.exceededAt = 0
    /\ hist.completionAt = 0

\* the tallies of the result are those of the run: every tool execution made
\* was counted as a tool call, every other model reply as a parse error
C31_Tallies ==
    /\ result.metrics.toolCalls = hist.toolExecs
    /\ result.metrics.parseErrors = hist.chats - hist.toolExecs

-----------------------------------------------------------------------------
(* The tool result as the model is told to expect it *)

C32_Contains(text, part) ==
    \E k \in 1..(Len(text) - Len(part) + 1) :
        SubSeq(text, k, k + Len(part) - 1) = part

\* C32: the tool-result message fed back to the model identifies the tool
\* that was called: next to success and data/error, the tool_result envelope
\* holds a "tool" member with the name of the tool, as the system prompt
\* announces.
C32_EnvelopeNamesTool ==
    pc = "addToolResult" =>
        /\ C32_Contains(pendingMessage.content, "\"success\":")
        /\ C32_Contains(pendingMessage.content,
                        "\"tool\":" \o jsonString(validated.tool))

-----------------------------------------------------------------------------
(* How the counters add up *)

\* the run ended with a Completion or with the context limit: its last
\* iteration is counted in neither tally
C33_LastIterationUntallied ==
    IF hist.completionAt > 0 \/ hist.exceededAt > 0 THEN 1 ELSE 0

\* C33: at every return of runAgent that is not caused by a thrown service
\* exception, iterations = toolCalls + parseErrors + c, where c = 1 if the run
\* ended with a Completion or with the context limit and c = 0 if it ended by
\* exhausting maxIterations.
C33_IterationsAddUp ==
    Returned /\ ~hist.threw =>
        result.metrics.iterations
            = result.metrics.toolCalls + result.metrics.parseErrors
              + C33_LastIterationUntallied

\* a tool call, then a Completion: two iterations, one tool call
C33_Witness ==
    /\ Returned
    /\ ~hist.threw
    /\ result.success
    /\ hist.completionAt = 2
    /\ result.metrics.iterations = 2
    /\ result.metrics.toolCalls = 1
    /\ result.metrics.parseErrors = 0

-----------------------------------------------------------------------------
(* How the counters are ordered *)

C34_Ordered(m) ==
    /\ m.toolFailures <= m.toolCalls
    /\ m.toolCalls + m.parseErrors <= m.iterations
    /\ m.iterations <= (IF maxIterations > 0 THEN maxIterations ELSE 0)

\* C34: in every reachable state of a run, toolFailures <= toolCalls,
\* toolCalls + parseErrors <= iterations, and iterations <= max(maxIterations, 0).
C34_CounterOrder ==
    /\ C34_Ordered(metrics)
    /\ Returned => C34_Ordered(result.metrics)

\* in the last permitted iteration, after a parse error, a tool call has just
\* failed: every bound is met with equality
C34_Witness ==
    /\ pc = "addToolResult"
    /\ maxIterations = 2
    /\ metrics.iterations = 2
    /\ metrics.parseErrors = 1
    /\ metrics.toolCalls = 1
    /\ metrics.toolFailures = 1

-----------------------------------------------------------------------------
(* How many messages a run leaves behind *)

\* the run found no messages when it was called, and no service call threw:
\* for a run that got to the store, the conversation was absent
C35_StartedAbsent == hist.emptyAtStart /\ ~hist.threw

\* the reply of the last model call is still to be appended
C35_ReplyPending ==
    pc \in {"addErrorMessage", "toolExecute", "addToolResult", "addCompletion"}

-----------------------------------------------------------------------------
(* What of the model's own output gets into the conversation *)

\* the replies that are not a valid Completion: tool calls and malformed turns
C36_NotCompletions ==
    {content \in LlmContents :
        LET parseResult == safeParseJson(content)
        IN  \/ ~parseResult.success
            \/ ~validateResponse(parseResult.data).success
            \/ validateResponse(parseResult.data).data.kind # "done"}

\* as stated: what is appended for a tool-call turn or a malformed turn shows
\* the model nothing of the text it sent
C36_AsStated ==
    pc \in {"addToolResult", "addErrorMessage"} =>
        ~C32_Contains(pendingMessage.content, llmResult)

\* C36: the model's raw output is stored as a message only for a Completion
\* turn; for a tool-call turn only the tool_result envelope is appended, which
\* shows nothing of the tool-call text, and for a malformed turn only the
\* system feedback message is appended, which after a JSON syntax error quotes
\* the text received; no message handed to a later model call is the text of
\* an earlier tool call or malformed reply.
C36_RawOnlyForCompletion ==
    /\ pc = "addCompletion" => pendingMessage = Message("assistant", llmResult)
    /\ pc = "addToolResult" =>
          /\ pendingMessage = Message("assistant", stringifyToolResult(toolResult))
          /\ ~C32_Contains(pendingMessage.content, llmResult)
    /\ pc = "addErrorMessage" =>
          /\ pendingMessage.role = "system"
          /\ pendingMessage.content # llmResult
          /\ ~safeParseJson(llmResult).success =>
                C32_Contains(pendingMessage.content, "Received: " \o llmResult)
    /\ pc = "chat" =>
          \A k \in 1..Len(currentMessages) :
              currentMessages[k].content \notin C36_NotCompletions

\* the second model call, after a reply that was no JSON: the third message
\* is the system feedback, and it quotes the reply
C36_Witness ==
    /\ pc = "chat"
    /\ metrics.iterations = 2
    /\ metrics.parseErrors = 1
    /\ Len(currentMessages) = 3
    /\ currentMessages[3].role = "system"
    /\ C32_Contains(currentMessages[3].content, "Received: invalid json")

-----------------------------------------------------------------------------
(* Once the context limit is met *)

\* an earlier run on this conversation met the context limit under the
\* maxTokens of this run, and the conversation was not cleared since
C37_LimitMetBefore == hist.priorLimit > 0 /\ maxTokens = hist.priorLimit

\* the run failed with the context limit in its first iteration, without a
\* model call, its user message appended
C37_FailsAtOnce ==
    /\ ~result.success
    /\ result.error = ContextLimitError(estimateTokens(conversationId))
    /\ result.metrics.contextLimitReached
    /\ result.metrics.iterations = 1
    /\ hist.exceededAt = 1
    /\ hist.chats = 0
    /\ Last(Messages) = Message("user", userInput)

\* as stated, for every later run, whatever its inputs and its maxIterations
C37_AsStated ==
    Returned /\ C37_LimitMetBefore => C37_FailsAtOnce

\* C37: once a run on a conversation has failed with the context limit, every
\* later run on the same uncleared conversation with the same maxTokens and
\* threshold, valid inputs and maxIterations >= 1 fails with the context limit
\* in its first iteration, without any model call, while still appending its
\* user message.
C37_Absorbing ==
    C37_LimitMetBefore /\ ValidInputs /\ maxIterations >= 1 =>
        /\ Returned => C37_FailsAtOnce
        /\ pc # "idle" => (hist.chats = 0 /\ metrics.iterations <= 1)
        /\ pc \notin {"getMessages", "chat", "addErrorMessage", "toolExecute",
                      "addToolResult", "addCompletion"}

\* the second run on a conversation that has met the limit has met it again
C37_Witness ==
    /\ Returned
    /\ C37_LimitMetBefore
    /\ ValidInputs
    /\ maxIterations >= 1
    /\ runs = 2
    /\ hist.exceededAt = 1
    /\ Len(Messages) >= 3

-----------------------------------------------------------------------------
(* A later run with another system prompt *)

\* the run in flight, or just returned, found a non-empty conversation whose
\* first message is not the system prompt it was given
C38_OtherPrompt ==
    /\ pc # "idle" \/ Returned
    /\ ValidInputs
    /\ hist.atStart # <<>>
    /\ Head(hist.atStart) # Message("system", systemPrompt)

\* the messages the run has appended to those it found
C38_Appended == SubSeq(Messages, Len(hist.atStart) + 1, Len(Messages))

-----------------------------------------------------------------------------
(* A run that is allowed no iteration *)

\* a run with valid inputs and maxIterations <= 0 has returned
C39_NoIterationRun == Returned /\ ValidInputs /\ maxIterations <= 0

\* C39: with maxIterations <= 0 and valid inputs, runAgent makes no model call
\* and no tool execution and fails with the max-iterations error reporting
\* iterations == 0, having seeded the conversation if it was empty and
\* appended the user message.
C39_NoIteration ==
    C39_NoIterationRun =>
        /\ hist.chats = 0
        /\ hist.toolExecs = 0
        /\ ~result.success
        /\ result.error = MaxIterationsError(maxIterations)
        /\ result.metrics.iterations = 0
        /\ Len(Messages) >= 2
        /\ Last(Messages) = Message("user", userInput)
        /\ hist.emptyAtStart =>
              Messages = <<Message("system", systemPrompt),
                           Message("user", userInput)>>

\* the same for runs that found the conversation absent or non-empty, where
\* create is either not called or cannot throw
C39_NotCleared ==
    (C39_NoIterationRun /\ ~(hist.emptyAtStart /\ hist.threw)) =>
        /\ hist.chats = 0
        /\ hist.toolExecs = 0
        /\ result.error = MaxIterationsError(maxIterations)
        /\ result.metrics.iterations = 0
        /\ Last(Messages) = Message("user", userInput)

\* a run allowed no iteration has returned from a cleared conversation
C39_ClearedRun ==
    /\ C39_NoIterationRun
    /\ hist.emptyAtStart
    /\ conversations[conversationId].exists
    /\ Messages = <<>>

====
